---- MODULE Spec2Model ----
(***************************************************************************)
(* A model of the request-processing core of rpcserver.go (dcrlnd):        *)
(*   - extractPaymentIntent, checkCanSendPayment, dispatchPaymentIntent    *)
(*   - the streaming payment call sendPayment (SendPayment / SendToRoute)  *)
(*     and the synchronous call sendPaymentSync                            *)
(*   - the relay loops of OpenChannel, OpenChannelSync and CloseChannel    *)
(*   - the ChannelAcceptor call and its demultiplexReq closure             *)
(* One behaviour follows one RPC call: the variable rpc names it.          *)
(***************************************************************************)
EXTENDS Integers, Naturals, Sequences, FiniteSets, TLC

VARIABLES
    rpc,          \* which RPC handler this behaviour runs
    started,      \* r.server.Started()
    openChannels, \* r.server.chanDB.FetchAllOpenChannels()
    htlcFee,      \* relayFee.FeeForSize(input.HTLCOutputSize), in atoms
    invoice,      \* AddInvoice: the lnrpc.Invoice of the request
    quit,         \* r.quit has been closed (process-wide shutdown)
    pc,           \* position of the handler's own goroutine
    result,       \* the error the handler returned ("none" while running)
    cause,        \* the message or branch that made the handler return
    errChan,      \* the call's error channel (buffer of 1)
    out,          \* what has been written to the client stream, in order
    htlcSema,     \* sendPayment: tokens in the semaphore channel
    reqQuit,      \* sendPayment: reqQuit has been closed
    reader,       \* sendPayment: the reading goroutine
    tasks,        \* sendPayment: the dispatch goroutines, by request number
    lock,         \* SendPayment/SendToRoute: holders of the send mutex
    nRecv,        \* number of messages the client stream has delivered
    sync,         \* sendPaymentSync: the request and its dispatch
    chanReq,      \* OpenChannel(Sync)/CloseChannel: the request and what the
                  \* node's subsystems answer during its validation
    updateChan,   \* OpenChannel(Sync)/CloseChannel: the update feed
    taken,        \* history: the updates the relay loop took from the feed
    engine,       \* the channel-management engine and the close waiter
    decide,       \* ChannelAcceptor: the demultiplexReq calls
    acceptRequests, \* ChannelAcceptor: pending-channel id -> response slot
    acceptReader, \* ChannelAcceptor: the goroutine around stream.Recv
    firstPut,     \* history: the first value placed on errChan, if any
    writeFailed   \* history: a stream write failed before the call returned

fixedVars == <<rpc, started, openChannels, htlcFee, chanReq, invoice>>
callVars  == <<pc, result, cause>>
payVars   == <<htlcSema, reqQuit, reader, tasks, lock, nRecv>>
histVars  == <<firstPut, writeFailed>>
relayVars == <<updateChan, engine, taken>>
accVars   == <<decide, acceptRequests, acceptReader>>
vars      == <<fixedVars, quit, callVars, errChan, out, payVars, sync, histVars,
               relayVars, accVars>>

(***************************************************************************)
(* Bounds of the model.                                                    *)
(***************************************************************************)
\* Requests one streaming call receives at most.
MaxReqs == 2
\* Updates the channel-management engine puts on one update feed at most.
MaxUpdates == 2
\* demultiplexReq calls made during one ChannelAcceptor call at most.
MaxDecide == 2
\* Open channels the capacity preflight is run against at most.
MaxChans == 2
\* Capacity of htlcSema.  The source fixes it at 2000 (const
\* numOutstandingPayments, rpcserver.go:3667); the model keeps the code's
\* semaphore and runs it at a capacity small enough to be filled.
PoolCap == 1

(***************************************************************************)
(* Values.                                                                 *)
(***************************************************************************)
\* var MaxPaymentMAtoms (rpcserver.go:80), scaled down: 3 atoms.
MaxPaymentMAtoms == 3000

\* MaxFundingAmount and minChanFundingSize (used at rpcserver.go:1459 and
\* 1467), scaled down.
MaxFundingAmount   == 5
minChanFundingSize == 2

\* updateChan = make(chan interface{}, 2) (rpcserver.go:1852)
updateChanCap == 2

\* A feed with room for one update.
feedOfOne(ch) == Len(ch) < 1

\* A send on updateChan proceeds when the buffer has room.
feedHasRoom(ch) == Len(ch) < updateChanCap

\* The zero [32]byte payment hash.
NoHash == 0
Nil    == "nil"
\* r.selfNode
selfNode == "self"

\* The error strings of the handlers.
ErrServerNotActive == "server is still in the process of starting"
ErrHex             == "encoding/hex: invalid byte"
ErrInvalidKeyLen   == "invalid key length"
ErrSelfPayment     == "self-payments not allowed"
ErrAmtRequired     == "amount must be specified when paying a zero amount invoice"
ErrTooLarge        == "payment is too large"
ErrNoOpenChannels  == "no open channels"
ErrNoOnline        == "no online channels found"
ErrNotEnough       == "not enough outbound capacity"
ErrNotEnoughInbound == "not enough inbound capacity"
ErrAmtExclusive    == "atoms and matoms arguments are mutually exclusive"
ErrPreimage        == "invalid preimage length"
ErrAddInvoice      == "unable to add invoice"
ErrRecv            == "stream recv error"
ErrSend            == "stream send error"
ErrMarshall        == "unable to marshall route"
ErrRouter          == "router error"
ErrPushTooLarge    == "amount pushed to remote peer for initial state must be below the local funding amount"
ErrFundingTooLarge == "funding amount is too large"
ErrChanTooSmall    == "channel is too small"
ErrMinConfs        == "minimum number of confirmations must be a non-negative number"
ErrNoNodeKey       == "NodePubKey is not set"
ErrParseKey        == "malformed public key"
ErrOpenToSelf      == "cannot open channel to self"
ErrFee             == "unable to determine fee"
ErrCloseAddr       == "error parsing upfront shutdown"
ErrWalletSync      == "unable to query wallet sync"
ErrNotSynced       == "channels cannot be created before the wallet is fully synced"
ErrNoChanPoint     == "must specify channel point in close channel"
ErrForceFee        == "force closing a channel uses a pre-defined fee"
ErrTxid            == "invalid funding txid"
ErrNoChannel       == "unable to find channel"
ErrBestBlock       == "unable to get best block"
ErrForceClose      == "unable to force close transaction"
ErrPeerOffline     == "unable to gracefully close channel while peer is offline"
ErrActiveHtlcs     == "cannot co-op close channel with active htlcs"
ErrDeliveryAddr    == "invalid delivery address"
ErrUnknownUpdate   == "unknown close status update"
ErrEngine          == "engine error"
ErrShuttingDown    == "RPC server is shutting down"

(***************************************************************************)
(* Requests.  Byte strings are abstracted to [len, id]: their length and   *)
(* an identifier of their content.  An encoded invoice is abstracted to    *)
(* what zpay32.Decode makes of it.                                         *)
(***************************************************************************)
NoBytes   == [len |-> 0, id |-> "none"]
Key(id)   == [len |-> 33, id |-> id]
Short(id) == [len |-> 32, id |-> id]
\* PaymentRequest "": no invoice.
NoPayReq  == [empty |-> TRUE, wellFormed |-> FALSE, hash |-> NoHash,
              dest |-> "none", hasMilliAt |-> FALSE, MilliAt |-> 0,
              expired |-> FALSE]
\* An invoice for hash h to d; hasAmt: payReq.MilliAt # nil.
PayReq(h, d, hasAmt, m, e) ==
    [empty |-> FALSE, wellFormed |-> TRUE, hash |-> h, dest |-> d,
     hasMilliAt |-> hasAmt, MilliAt |-> m, expired |-> e]
\* A PaymentRequest string that zpay32.Decode rejects.
GarbagePayReq == [NoPayReq EXCEPT !.empty = FALSE]

\* A lnrpc.SendRequest with nothing set but the payment hash, wrapped in an
\* rpcPaymentRequest without a route.
BlankReq(h) ==
    [route |-> FALSE, PaymentHash |-> h, PaymentHashString |-> "",
     PaymentRequest |-> NoPayReq, Dest |-> NoBytes, DestString |-> "",
     Amt |-> 0, AmtMAtoms |-> 0, AllowSelfPayment |-> FALSE,
     IgnoreMaxOutboundAmt |-> FALSE, OutgoingChanId |-> 0,
     LastHopPubkey |-> NoBytes, CltvLimitValid |-> TRUE,
     DestCustomRecordsValid |-> TRUE, DestFeaturesValid |-> TRUE]

\* encoding/hex.DecodeString on the strings the model uses: "" decodes to no
\* bytes, "01" and "02" to the hashes 1 and 2, "A", "B" and "self" stand for
\* the hex encoding of those 33-byte keys, "zz" is not hex.
hexDecodeHash(s) ==
    CASE s = ""   -> [err |-> Nil, val |-> NoHash]
      [] s = "01" -> [err |-> Nil, val |-> 1]
      [] s = "02" -> [err |-> Nil, val |-> 2]
      [] OTHER    -> [err |-> ErrHex, val |-> NoHash]

hexDecodeKey(s) ==
    CASE s = ""        -> [err |-> Nil, val |-> NoBytes]
      [] s = "zz"      -> [err |-> ErrHex, val |-> NoBytes]
      [] s = "short"   -> [err |-> Nil, val |-> Short("A")]
      [] OTHER         -> [err |-> Nil, val |-> Key(s)]

\* lnrpc.UnmarshallAmt: the amount in milli-atoms from the two amount fields,
\* of which at most one may be set.
UnmarshallAmt(amt, amtMAtoms) ==
    IF amt # 0 /\ amtMAtoms # 0
    THEN [err |-> ErrAmtExclusive, val |-> 0]
    ELSE IF amt # 0 THEN [err |-> Nil, val |-> amt * 1000]
    ELSE [err |-> Nil, val |-> amtMAtoms]

\* The zero rpcPaymentIntent, but for ignoreMaxOutboundAmt.
ZeroIntent(ignore) ==
    [ignoreMaxOutboundAmt |-> ignore, mat |-> 0, dest |-> "none",
     rHash |-> NoHash, route |-> FALSE, outgoingChannelID |-> 0,
     lastHop |-> "none", payReq |-> FALSE]

\* A destination check that does not look at AllowSelfPayment.
validateDestStrict(req, dest, self) ==
    IF dest = self THEN ErrSelfPayment ELSE Nil

\* validateDest (rpcserver.go:3313)
validateDest(req, dest, self) ==
    IF req.AllowSelfPayment THEN Nil
    ELSE IF dest = self THEN ErrSelfPayment
    ELSE Nil

Ret(intent, err) == [intent |-> intent, err |-> err]

\* extractPaymentIntent, invoice branch (rpcserver.go:3328-3387)
extractFromPayReq(req, i0, self) ==
    LET payReq == req.PaymentRequest
        i1 == [i0 EXCEPT !.rHash = payReq.hash]
        amt == UnmarshallAmt(req.Amt, req.AmtMAtoms)
        mat == IF ~payReq.hasMilliAt THEN amt.val ELSE payReq.MilliAt
        i2 == [i1 EXCEPT !.mat = mat, !.dest = payReq.dest, !.payReq = TRUE]
    IN  IF ~payReq.wellFormed THEN Ret(i0, "invalid payment request")
        ELSE IF payReq.expired THEN Ret(i1, "invoice expired")
        ELSE IF ~payReq.hasMilliAt /\ amt.err # Nil THEN Ret(i1, amt.err)
        ELSE IF ~payReq.hasMilliAt /\ amt.val = 0 THEN Ret(i1, ErrAmtRequired)
        ELSE IF validateDest(req, i2.dest, self) # Nil
             THEN Ret(i2, validateDest(req, i2.dest, self))
        ELSE Ret(i2, Nil)

\* A size check that lets every amount pass.
neverTooLarge(mat) == FALSE

\* if payIntent.mat > MaxPaymentMAtoms (rpcserver.go:3460)
tooLarge(mat) == mat > MaxPaymentMAtoms

\* extractPaymentIntent, manual branch (rpcserver.go:3389-3469)
extractManual(req, i0, self) ==
    LET dec == IF req.Dest.len # 0 THEN [err |-> Nil, val |-> req.Dest]
               ELSE hexDecodeKey(req.DestString)
        pubBytes == dec.val
        i1 == [i0 EXCEPT !.dest = pubBytes.id]
        amt == UnmarshallAmt(req.Amt, req.AmtMAtoms)
        i2 == [i1 EXCEPT !.mat = amt.val]
        hash == IF req.PaymentHashString # ""
                THEN hexDecodeHash(req.PaymentHashString)
                ELSE [err |-> Nil, val |-> req.PaymentHash]
        i3 == [i2 EXCEPT !.rHash = hash.val]
    IN  IF dec.err # Nil THEN Ret(i0, dec.err)
        ELSE IF pubBytes.len # 33 THEN Ret(i0, ErrInvalidKeyLen)
        ELSE IF validateDest(req, i1.dest, self) # Nil
             THEN Ret(i1, validateDest(req, i1.dest, self))
        ELSE IF amt.err # Nil THEN Ret(i2, amt.err)
        ELSE IF hash.err # Nil THEN Ret(i2, hash.err)
        ELSE IF ~req.DestFeaturesValid THEN Ret(i3, "invalid feature bit")
        ELSE IF tooLarge(i3.mat) THEN Ret(i3, ErrTooLarge)
        ELSE Ret(i3, Nil)

\* A route that is used only when the request has no invoice string.
routeUnlessInvoice(req) == req.route /\ req.PaymentRequest.empty

\* if rpcPayReq.route != nil (rpcserver.go:3261)
routeGiven(req) == req.route

\* extractPaymentIntent (rpcserver.go:3255-3470)
extractPaymentIntent(req, self) ==
    LET i0 == ZeroIntent(req.IgnoreMaxOutboundAmt)
        hash == hexDecodeHash(req.PaymentHashString)
        i1 == [i0 EXCEPT !.outgoingChannelID = req.OutgoingChanId]
        i2 == IF req.LastHopPubkey.len > 0
              THEN [i1 EXCEPT !.lastHop = req.LastHopPubkey.id] ELSE i1
    IN  IF routeGiven(req)
        THEN IF req.PaymentHashString # ""
             THEN IF hash.err # Nil THEN Ret(i0, hash.err)
                  ELSE Ret([i0 EXCEPT !.rHash = hash.val, !.route = TRUE], Nil)
             ELSE Ret([i0 EXCEPT !.rHash = req.PaymentHash, !.route = TRUE], Nil)
        ELSE IF req.LastHopPubkey.len > 0 /\ req.LastHopPubkey.len # 33
             THEN Ret(i1, "invalid vertex length")
        ELSE IF ~req.CltvLimitValid THEN Ret(i2, "cltv limit exceeds maximum")
        ELSE IF ~req.DestCustomRecordsValid THEN Ret(i2, "invalid custom record")
        ELSE IF ~req.PaymentRequest.empty THEN extractFromPayReq(req, i2, self)
        ELSE extractManual(req, i2, self)

(***************************************************************************)
(* The capacity preflight.  A channel of the list is                       *)
(*   [peerOnline, hasLink, eligible : the three liveness conditions,       *)
(*    LocalBalance : milli-atoms, ChanReserve : atoms (the local side),    *)
(*    RemoteBalance : milli-atoms, RemoteChanReserve : atoms,              *)
(*    chanID : what graph.ChannelID returns for it (0 when it fails)].     *)
(* The list is what FetchAllOpenChannels returned without an error.        *)
(***************************************************************************)
ToAtoms(mat) == mat \div 1000

Chan(online, link, elig, bal, reserve, rbal, rreserve, id) ==
    [peerOnline |-> online, hasLink |-> link, eligible |-> elig,
     LocalBalance |-> bal, ChanReserve |-> reserve,
     RemoteBalance |-> rbal, RemoteChanReserve |-> rreserve, chanID |-> id]

\* The three `continue` conditions of the loop (rpcserver.go:3522-3540).
chanUsable(channel) ==
    channel.peerOnline /\ channel.hasLink /\ channel.eligible

\* capacity (rpcserver.go:3549)
outboundCapacity(channel) ==
    ToAtoms(channel.LocalBalance) - channel.ChanReserve

\* capacity (rpcserver.go:3952)
inboundCapacity(channel) ==
    ToAtoms(channel.RemoteBalance) - channel.RemoteChanReserve

\* A comparison that asks for more than the amount.
strictlyMore(capacity, amt) == capacity > amt

\* if capacity >= amt (rpcserver.go:3552, 3955)
enoughCapacity(capacity, amt) == capacity >= amt

\* An emptiness test that never fires.
neverEmpty(chans) == FALSE

\* if len(openChannels) == 0 (rpcserver.go:3498, 3911)
noOpenChannels(chans) == Len(chans) = 0

\* The loop over openChannels (rpcserver.go:3518-3564) from position k on,
\* with maxChanCap and maxChanID as they stand; "found" when it returns nil.
RECURSIVE scanChannels(_, _, _, _, _)
scanChannels(chans, k, amt, maxChanCap, maxChanID) ==
    IF k > Len(chans)
    THEN [found |-> FALSE, maxChanCap |-> maxChanCap, maxChanID |-> maxChanID]
    ELSE LET channel  == chans[k]
             capacity == outboundCapacity(channel)
         IN  IF ~chanUsable(channel)
             THEN scanChannels(chans, k + 1, amt, maxChanCap, maxChanID)
             ELSE IF enoughCapacity(capacity, amt)
             THEN [found |-> TRUE, maxChanCap |-> maxChanCap,
                   maxChanID |-> maxChanID]
             ELSE IF capacity > maxChanCap
             THEN scanChannels(chans, k + 1, amt, capacity, channel.chanID)
             ELSE scanChannels(chans, k + 1, amt, maxChanCap, maxChanID)

\* The loop of checkCanReceiveInvoice (rpcserver.go:3921-3966).
RECURSIVE scanInbound(_, _, _, _, _)
scanInbound(chans, k, amt, maxChanCap, maxChanID) ==
    IF k > Len(chans)
    THEN [found |-> FALSE, maxChanCap |-> maxChanCap, maxChanID |-> maxChanID]
    ELSE LET channel  == chans[k]
             capacity == inboundCapacity(channel)
         IN  IF ~chanUsable(channel)
             THEN scanInbound(chans, k + 1, amt, maxChanCap, maxChanID)
             ELSE IF enoughCapacity(capacity, amt)
             THEN [found |-> TRUE, maxChanCap |-> maxChanCap,
                   maxChanID |-> maxChanID]
             ELSE IF capacity > maxChanCap
             THEN scanInbound(chans, k + 1, amt, capacity, channel.chanID)
             ELSE scanInbound(chans, k + 1, amt, maxChanCap, maxChanID)

\* checkCanSendPayment (rpcserver.go:3481-3573): the error, the missing
\* capacity and the channel the error message names.
checkCanSendPayment(payIntent, chans, fee) ==
    LET amt  == ToAtoms(payIntent.mat) + fee
        scan == scanChannels(chans, 1, amt, 0, 0)
        ok   == [err |-> Nil, missingCap |-> 0, chanID |-> 0]
    IN  IF payIntent.ignoreMaxOutboundAmt THEN ok
        ELSE IF noOpenChannels(chans)
        THEN [ok EXCEPT !.err = ErrNoOpenChannels]
        ELSE IF scan.found THEN ok
        ELSE IF scan.maxChanID = 0 THEN [ok EXCEPT !.err = ErrNoOnline]
        ELSE [err |-> ErrNotEnough, missingCap |-> amt - scan.maxChanCap,
              chanID |-> scan.maxChanID]

\* An lnrpc.Invoice: the two value fields, the bypass flag, and RPreimage
\* ("none": not set, "ok": 32 bytes, "bad": another length).
Invoice(value, valueMAtoms, ignore, preimage) ==
    [Value |-> value, ValueMAtoms |-> valueMAtoms,
     IgnoreMaxInboundAmt |-> ignore, RPreimage |-> preimage]
NoInvoice == Invoice(0, 0, FALSE, "none")

\* checkCanReceiveInvoice (rpcserver.go:3892-3975)
checkCanReceiveInvoice(inv, chans) ==
    LET amt  == inv.Value
        scan == scanInbound(chans, 1, amt, 0, 0)
        ok   == [err |-> Nil, missingCap |-> 0, chanID |-> 0]
    IN  IF inv.IgnoreMaxInboundAmt THEN ok
        ELSE IF noOpenChannels(chans)
        THEN [ok EXCEPT !.err = ErrNoOpenChannels]
        ELSE IF scan.found THEN ok
        ELSE IF scan.maxChanID = 0 THEN [ok EXCEPT !.err = ErrNoOnline]
        ELSE [err |-> ErrNotEnoughInbound,
              missingCap |-> amt - scan.maxChanCap, chanID |-> scan.maxChanID]

(***************************************************************************)
(* The goroutines of sendPayment.  The reader is writer 0 of the output    *)
(* stream, dispatch task i (the goroutine of the i-th request) writer i.   *)
(***************************************************************************)
readerId == 0
TaskIds  == 1..MaxReqs

\* A dispatch goroutine: its position, the request and the intent it was
\* started for, the error it is about to report, and a history of what it
\* has done so far.
NoTask ==
    [pc |-> "none", req |-> BlankReq(NoHash), intent |-> ZeroIntent(FALSE),
     err |-> Nil, from |-> "none",
     acquired |-> 0, released |-> 0, routed |-> <<>>, sends |-> 0]

\* The reader: its position, the number of the request it works on, the
\* request, what extractPaymentIntent made of it, and what the last
\* stream.recv() returned.
ReaderAt(p, saw) ==
    [pc |-> p, n |-> 0, req |-> BlankReq(NoHash),
     intent |-> ZeroIntent(FALSE), err |-> Nil, saw |-> saw]

\* A value on errChan: the error, which statement sent it and which writer.
ErrMsg(err, from, by) == [err |-> err, from |-> from, by |-> by]
NoCause == ErrMsg(Nil, "none", readerId)

\* A lnrpc.SendResponse written for request n.
ErrorResponse(n, err, payIntent) ==
    [n |-> n, PaymentError |-> err, PaymentHash |-> payIntent.rHash,
     PaymentRoute |-> FALSE]
SuccessResponse(n, payIntent) ==
    [n |-> n, PaymentError |-> "", PaymentHash |-> payIntent.rHash,
     PaymentRoute |-> TRUE]

\* Handlers that all report the shutdown as an error.
shutdownAlwaysError(call) == ErrShuttingDown

\* What a handler returns when r.quit ends it (rpcserver.go:1579, 1719,
\* 1965, 3691 with 3747, 5838).
shutdownResult(call) ==
    IF call = "ChannelAcceptor" THEN ErrShuttingDown ELSE Nil

\* errChan := make(chan error, 1): a send proceeds when the buffer has room.
errChanHasRoom(ch) == Len(ch) < 1

\* A receive from htlcSema that never waits.
slotAlwaysAvailable(sema) == TRUE

\* <-htlcSema proceeds when a token is in the channel.
slotAvailable(sema) == sema > 0

\* A send function that does not take the mutex.
lockIgnored(l) == TRUE

\* lock.Lock() proceeds when no writer holds the mutex.
lockFree(l) == l = {}

\* A dispatch goroutine that returns without putting its token back.
slotKept(sema) == sema

\* The deferred htlcSema <- struct{}{} of a dispatch goroutine.
releaseSlot(sema) == sema + 1

\* A response that reaches the stream twice.
streamSentTwice(o, resp) == Append(Append(o, resp), resp)

\* stream.Send accepted the response.
streamSent(o, resp) == Append(o, resp)

\* A reader that returns after writing a validation error.
readerStops == ReaderAt("done", "none")

\* The `continue` after the reader has written a validation error
\* (rpcserver.go:3729).
readerContinue == ReaderAt("select", "none")

\* A reader that passes io.EOF on as the call's error.
eofAsError == "EOF"

\* What the reader sends on errChan after io.EOF (rpcserver.go:3699).
eofResult == Nil

\* A dispatch goroutine that drops the error of a failed write.
taskWriteErrorDropped(t) ==
    [t EXCEPT !.pc = "done", !.err = ErrSend, !.from = "taskSend"]

\* A dispatch goroutine whose stream.send failed (rpcserver.go:3782-3784,
\* 3802-3804): the error is to go to errChan.
taskWriteFailed(t) ==
    [t EXCEPT !.pc = "putErr", !.err = ErrSend, !.from = "taskSend"]

\* The requests the client may send as the n-th message of a SendPayment
\* stream: manual requests of 1 and of 3 atoms, and one whose destination
\* key is too short.
SendPaymentMsgs(n) ==
    { [BlankReq(n) EXCEPT !.Dest = Key("A"), !.AmtMAtoms = 1000],
      [BlankReq(n) EXCEPT !.Dest = Key("A"), !.AmtMAtoms = 3000],
      [BlankReq(n) EXCEPT !.Dest = Short("A"), !.AmtMAtoms = 1000] }

\* The lnrpc.SendToRouteRequest messages of a SendToRoute stream: with a
\* route and a hash, with a route and a hash string that is not hex, and
\* without a route.
SendToRouteMsgs(n) ==
    { [PaymentHash |-> n, PaymentHashString |-> "", Route |-> TRUE],
      [PaymentHash |-> n, PaymentHashString |-> "zz", Route |-> TRUE],
      [PaymentHash |-> n, PaymentHashString |-> "", Route |-> FALSE] }

\* unmarshallSendToRouteRequest (rpcserver.go:3205-3224)
unmarshallSendToRouteRequest(req) ==
    IF ~req.Route
    THEN [err |-> "unable to send, no route provided", req |-> BlankReq(NoHash)]
    ELSE [err |-> Nil,
          req |-> [BlankReq(req.PaymentHash) EXCEPT
                      !.PaymentHashString = req.PaymentHashString,
                      !.route = TRUE]]

\* paymentStream.recv of SendPayment (rpcserver.go:3159-3168) and of
\* SendToRoute (rpcserver.go:3187-3194): what the reader gets for the
\* n-th message.
streamRecvs(call, n) ==
    IF call = "SendToRoute"
    THEN { unmarshallSendToRouteRequest(m) : m \in SendToRouteMsgs(n) }
    ELSE { [err |-> Nil, req |-> m] : m \in SendPaymentMsgs(n) }

StreamCalls == {"SendPayment", "SendToRoute"}

(***************************************************************************)
(* dispatchPaymentIntent (rpcserver.go:3580-3644), in two steps: the       *)
(* preflight with the call of the routing engine, and the engine's return. *)
(***************************************************************************)
\* Which engine method the intent is passed to (rpcserver.go:3601-3628).
routerCall(payIntent) ==
    IF ~payIntent.route THEN "SendPayment" ELSE "SendToRoute"

\* A dispatch that calls the engine whatever the preflight says.
dispatchWithoutPreflight(t, chans, fee) ==
    [t EXCEPT !.pc = "routing", !.routed = Append(@, routerCall(t.intent))]

\* rpcserver.go:3584-3625: on a preflight error the response is ready (pc
\* "respond"); otherwise the engine is called (pc "routing").
dispatchPreflight(t, chans, fee) ==
    LET chk == checkCanSendPayment(t.intent, chans, fee)
    IN  IF chk.err # Nil
        THEN [t EXCEPT !.pc = "respond", !.err = chk.err]
        ELSE [t EXCEPT !.pc = "routing",
                       !.routed = Append(@, routerCall(t.intent))]

\* rpcserver.go:3632-3643: the engine returned routerErr (Nil on success).
dispatchRouted(t, routerErr) ==
    [t EXCEPT !.pc = "respond", !.err = routerErr]

\* A send on errChan, with the history of the first one.
PutErr(msg) ==
    /\ errChan' = Append(errChan, msg)
    /\ firstPut' = IF firstPut = <<>> THEN <<msg>> ELSE firstPut

(***************************************************************************)
(* sendPayment (rpcserver.go:3651-3809)                                    *)
(***************************************************************************)
\* rpcserver.go:3652-3684: the channels are made, the semaphore is filled
\* and the reader is started, unless the server is not active.
PayEnter ==
    /\ rpc \in StreamCalls /\ pc = "start"
    /\ IF ~started
       THEN /\ pc' = "returned" /\ result' = ErrServerNotActive
            /\ cause' = ErrMsg(ErrServerNotActive, "notActive", readerId)
            /\ UNCHANGED <<htlcSema, reader>>
       ELSE /\ pc' = "loop" /\ htlcSema' = PoolCap
            /\ reader' = ReaderAt("select", "none")
            /\ UNCHANGED <<result, cause>>
    /\ UNCHANGED <<fixedVars, relayVars, accVars,
                   quit, errChan, out, reqQuit, tasks, lock, nRecv,
                   sync, histVars>>

\* The reader's outer select (rpcserver.go:3686-3692): the default branch is
\* taken only when neither channel is closed.
ReaderSelect ==
    /\ reader.pc = "select"
    /\ \/ reqQuit /\ reader' = ReaderAt("done", "none")
       \/ quit /\ reader' = ReaderAt("putQuit", "quit")
       \/ ~reqQuit /\ ~quit /\ reader' = ReaderAt("recv", "none")
    /\ UNCHANGED <<fixedVars, relayVars, accVars,
                   quit, callVars, errChan, out, htlcSema, reqQuit,
                   tasks, lock, nRecv, sync, histVars>>

\* rpcserver.go:3690: errChan <- nil after the shutdown signal.
ReaderPutQuit ==
    /\ reader.pc = "putQuit" /\ errChanHasRoom(errChan)
    /\ PutErr(ErrMsg(shutdownResult(rpc), "quit", readerId))
    /\ reader' = ReaderAt("done", "quit")
    /\ UNCHANGED <<fixedVars, relayVars, accVars,
                   quit, callVars, out, htlcSema, reqQuit, tasks,
                   lock, nRecv, sync, writeFailed>>

\* stream.recv() returns the next message (rpcserver.go:3697), which is
\* resolved at once (rpcserver.go:3715-3718).
ReaderRecvMsg ==
    /\ reader.pc = "recv" /\ nRecv < MaxReqs
    /\ \E m \in streamRecvs(rpc, nRecv + 1) :
         LET ex == extractPaymentIntent(m.req, selfNode)
         IN  reader' =
               IF m.err # Nil
               THEN [ReaderAt("putRecvErr", "recvErr") EXCEPT !.err = m.err]
               ELSE [pc |-> IF ex.err # Nil THEN "sendLock" ELSE "handoff",
                     n |-> nRecv + 1, req |-> m.req, intent |-> ex.intent,
                     err |-> ex.err, saw |-> "none"]
    /\ nRecv' = nRecv + 1
    /\ UNCHANGED <<fixedVars, relayVars, accVars,
                   quit, callVars, errChan, out, htlcSema, reqQuit,
                   tasks, lock, sync, histVars>>

\* stream.recv() returns io.EOF (rpcserver.go:3698).
ReaderRecvEOF ==
    /\ reader.pc = "recv"
    /\ reader' = ReaderAt("putEOF", "eof")
    /\ UNCHANGED <<fixedVars, relayVars, accVars,
                   quit, callVars, errChan, out, htlcSema, reqQuit,
                   tasks, lock, nRecv, sync, histVars>>

\* stream.recv() returns another error (rpcserver.go:3701).
ReaderRecvErr ==
    /\ reader.pc = "recv"
    /\ reader' = [ReaderAt("putRecvErr", "recvErr") EXCEPT !.err = ErrRecv]
    /\ UNCHANGED <<fixedVars, relayVars, accVars,
                   quit, callVars, errChan, out, htlcSema, reqQuit,
                   tasks, lock, nRecv, sync, histVars>>

\* rpcserver.go:3699: errChan <- nil after io.EOF.
ReaderPutEOF ==
    /\ reader.pc = "putEOF" /\ errChanHasRoom(errChan)
    /\ PutErr(ErrMsg(eofResult, "eof", readerId))
    /\ reader' = ReaderAt("done", "eof")
    /\ UNCHANGED <<fixedVars, relayVars, accVars,
                   quit, callVars, out, htlcSema, reqQuit, tasks,
                   lock, nRecv, sync, writeFailed>>

\* rpcserver.go:3702-3707: the read error goes to errChan, or the reader
\* gives up because reqQuit is closed.
ReaderPutRecvErr ==
    /\ reader.pc = "putRecvErr"
    /\ \/ /\ errChanHasRoom(errChan)
          /\ PutErr(ErrMsg(reader.err, "recv", readerId))
       \/ reqQuit /\ UNCHANGED <<errChan, firstPut>>
    /\ reader' = [ReaderAt("done", "recvErr") EXCEPT !.err = reader.err]
    /\ UNCHANGED <<fixedVars, relayVars, accVars,
                   quit, callVars, out, htlcSema, reqQuit, tasks,
                   lock, nRecv, sync, writeFailed>>

\* rpcserver.go:3719 with 3171: the reader takes the send mutex to write the
\* validation error.
ReaderSendLock ==
    /\ reader.pc = "sendLock" /\ lockFree(lock)
    /\ lock' = lock \cup {readerId}
    /\ reader' = [reader EXCEPT !.pc = "inSend"]
    /\ UNCHANGED <<fixedVars, relayVars, accVars,
                   quit, callVars, errChan, out, htlcSema, reqQuit,
                   tasks, nRecv, sync, histVars>>

\* stream.Send returns and the mutex is released (rpcserver.go:3172-3173);
\* after a successful write the reader continues (rpcserver.go:3729).
ReaderSendDone ==
    /\ reader.pc = "inSend"
    /\ lock' = lock \ {readerId}
    /\ \/ /\ out' = streamSent(out, ErrorResponse(reader.n, reader.err,
                                                  reader.intent))
          /\ reader' = readerContinue
          /\ UNCHANGED writeFailed
       \/ /\ reader' = [reader EXCEPT !.pc = "putSendErr", !.err = ErrSend]
          /\ writeFailed' = (writeFailed \/ pc = "loop")
          /\ UNCHANGED out
    /\ UNCHANGED <<fixedVars, relayVars, accVars,
                   quit, callVars, errChan, htlcSema, reqQuit,
                   tasks, nRecv, sync, firstPut>>

\* rpcserver.go:3723-3729: the write error goes to errChan and the reader
\* continues, or the reader returns because reqQuit is closed.
ReaderPutSendErr ==
    /\ reader.pc = "putSendErr"
    /\ \/ /\ errChanHasRoom(errChan)
          /\ PutErr(ErrMsg(reader.err, "readerSend", readerId))
          /\ reader' = readerContinue
       \/ /\ reqQuit /\ reader' = ReaderAt("done", "none")
          /\ UNCHANGED <<errChan, firstPut>>
    /\ UNCHANGED <<fixedVars, relayVars, accVars,
                   quit, callVars, out, htlcSema, reqQuit, tasks,
                   lock, nRecv, sync, writeFailed>>

\* rpcserver.go:3735-3736 with 3749-3753: the main loop takes the intent
\* from payChan (unbuffered) and starts its dispatch goroutine.
Handoff ==
    /\ reader.pc = "handoff" /\ pc = "loop" /\ rpc \in StreamCalls
    /\ tasks' = [tasks EXCEPT ![reader.n] =
                    [NoTask EXCEPT !.pc = "acquire", !.req = reader.req,
                                   !.intent = reader.intent]]
    /\ reader' = ReaderAt("select", "none")
    /\ UNCHANGED <<fixedVars, relayVars, accVars,
                   quit, callVars, errChan, out, htlcSema, reqQuit,
                   lock, nRecv, sync, histVars>>

\* rpcserver.go:3737-3738: reqQuit is closed while the reader offers the
\* intent.
ReaderHandoffQuit ==
    /\ reader.pc = "handoff" /\ reqQuit
    /\ reader' = ReaderAt("done", "none")
    /\ UNCHANGED <<fixedVars, relayVars, accVars,
                   quit, callVars, errChan, out, htlcSema, reqQuit,
                   tasks, lock, nRecv, sync, histVars>>

\* rpcserver.go:3746-3747 with the deferred close(reqQuit) of 3677-3679.
MainErr ==
    /\ rpc \in StreamCalls /\ pc = "loop" /\ Len(errChan) > 0
    /\ result' = Head(errChan).err
    /\ cause' = Head(errChan)
    /\ errChan' = Tail(errChan)
    /\ pc' = "returned"
    /\ reqQuit' = TRUE
    /\ UNCHANGED <<fixedVars, relayVars, accVars,
                   quit, out, htlcSema, reader, tasks, lock, nRecv,
                   sync, histVars>>

\* The goroutine returns: its deferred function puts the token back
\* (rpcserver.go:3758-3760).
TaskReturns(i, t) ==
    /\ tasks' = [tasks EXCEPT ![i] =
                    [t EXCEPT !.pc = "done", !.released = @ + 1]]
    /\ htlcSema' = releaseSlot(htlcSema)

\* rpcserver.go:3757: <-htlcSema
TaskAcquire(i) ==
    /\ tasks[i].pc = "acquire" /\ slotAvailable(htlcSema)
    /\ htlcSema' = htlcSema - 1
    /\ tasks' = [tasks EXCEPT ![i].pc = "preflight", ![i].acquired = @ + 1]
    /\ UNCHANGED <<fixedVars, relayVars, accVars,
                   quit, callVars, errChan, out, reqQuit, reader,
                   lock, nRecv, sync, histVars>>

\* rpcserver.go:3762 into dispatchPaymentIntent, up to the engine call.
TaskPreflight(i) ==
    /\ tasks[i].pc = "preflight"
    /\ tasks' = [tasks EXCEPT ![i] =
                    dispatchPreflight(tasks[i], openChannels, htlcFee)]
    /\ UNCHANGED <<fixedVars, relayVars, accVars,
                   quit, callVars, errChan, out, htlcSema, reqQuit,
                   reader, lock, nRecv, sync, histVars>>

\* The routing engine returns; on success the route is marshalled
\* (rpcserver.go:3788-3795), and a marshalling error goes to errChan.
TaskRouted(i) ==
    /\ tasks[i].pc = "routing"
    /\ \/ tasks' = [tasks EXCEPT ![i] = dispatchRouted(tasks[i], ErrRouter)]
       \/ tasks' = [tasks EXCEPT ![i] = dispatchRouted(tasks[i], Nil)]
       \/ tasks' = [tasks EXCEPT ![i].pc = "putErr", ![i].err = ErrMarshall,
                                 ![i].from = "marshall"]
    /\ UNCHANGED <<fixedVars, relayVars, accVars,
                   quit, callVars, errChan, out, htlcSema, reqQuit,
                   reader, lock, nRecv, sync, histVars>>

\* stream.send: lock.Lock() (rpcserver.go:3171), from 3778 or 3797.
TaskSendLock(i) ==
    /\ tasks[i].pc = "respond" /\ lockFree(lock)
    /\ lock' = lock \cup {i}
    /\ tasks' = [tasks EXCEPT ![i].pc = "inSend", ![i].sends = @ + 1]
    /\ UNCHANGED <<fixedVars, relayVars, accVars,
                   quit, callVars, errChan, out, htlcSema, reqQuit,
                   reader, nRecv, sync, histVars>>

\* stream.Send returns and the mutex is released: after a successful write
\* the goroutine returns (rpcserver.go:3785, 3806); after a failed one it
\* reports the write error (rpcserver.go:3783, 3803).
TaskSendDone(i) ==
    /\ tasks[i].pc = "inSend"
    /\ lock' = lock \ {i}
    /\ \/ /\ out' = streamSent(out,
                      IF tasks[i].err # Nil
                      THEN ErrorResponse(i, tasks[i].err, tasks[i].intent)
                      ELSE SuccessResponse(i, tasks[i].intent))
          /\ TaskReturns(i, tasks[i])
          /\ UNCHANGED writeFailed
       \/ /\ tasks' = [tasks EXCEPT ![i] = taskWriteFailed(tasks[i])]
          /\ writeFailed' = (writeFailed \/ pc = "loop")
          /\ UNCHANGED <<out, htlcSema>>
    /\ UNCHANGED <<fixedVars, relayVars, accVars,
                   quit, callVars, errChan, reqQuit, reader, nRecv,
                   sync, firstPut>>

\* errChan <- err (rpcserver.go:3783, 3793, 3803), then the goroutine
\* returns.
TaskPutErr(i) ==
    /\ tasks[i].pc = "putErr" /\ errChanHasRoom(errChan)
    /\ PutErr(ErrMsg(tasks[i].err, tasks[i].from, i))
    /\ TaskReturns(i, tasks[i])
    /\ UNCHANGED <<fixedVars, relayVars, accVars,
                   quit, callVars, out, reqQuit, reader, lock,
                   nRecv, sync, writeFailed>>

\* close(r.quit): the process-wide shutdown signal.
Shutdown ==
    /\ ~quit /\ quit' = TRUE
    /\ UNCHANGED <<fixedVars, relayVars, accVars,
                   callVars, errChan, out, payVars, sync, histVars>>

(***************************************************************************)
(* sendPaymentSync (rpcserver.go:3844-3885), for one request.              *)
(***************************************************************************)
\* rpcserver.go:3850-3859
SyncEnter ==
    /\ rpc = "SendPaymentSync" /\ pc = "start"
    /\ LET ex == extractPaymentIntent(sync.req, selfNode)
       IN  IF ~started
           THEN /\ pc' = "returned" /\ result' = ErrServerNotActive
                /\ cause' = ErrMsg(ErrServerNotActive, "notActive", readerId)
                /\ UNCHANGED sync
           ELSE IF ex.err # Nil
           THEN /\ pc' = "returned" /\ result' = ex.err
                /\ cause' = ErrMsg(ex.err, "validation", readerId)
                /\ UNCHANGED sync
           ELSE /\ pc' = "dispatch"
                /\ sync' = [NoTask EXCEPT !.pc = "preflight", !.req = sync.req,
                                          !.intent = ex.intent]
                /\ UNCHANGED <<result, cause>>
    /\ UNCHANGED <<fixedVars, relayVars, accVars,
                   quit, errChan, out, payVars, histVars>>

\* A response that leaves the payment hash out when the payment failed.
syncResponseBare(t) ==
    IF t.err # Nil
    THEN [ErrorResponse(1, t.err, t.intent) EXCEPT !.PaymentHash = NoHash]
    ELSE SuccessResponse(1, t.intent)

\* The response sendPaymentSync returns for the result of
\* dispatchPaymentIntent (rpcserver.go:3868-3872, 3880-3884).
syncResponse(t) ==
    IF t.err # Nil
    THEN ErrorResponse(1, t.err, t.intent)
    ELSE SuccessResponse(1, t.intent)

\* rpcserver.go:3863 into dispatchPaymentIntent, up to the engine call; a
\* preflight error is returned in the response (rpcserver.go:3868-3872).
SyncPreflight ==
    /\ rpc = "SendPaymentSync" /\ pc = "dispatch" /\ sync.pc = "preflight"
    /\ LET t == dispatchPreflight(sync, openChannels, htlcFee)
       IN  /\ sync' = t
           /\ IF t.pc = "respond"
              THEN /\ pc' = "returned" /\ result' = Nil
                   /\ cause' = ErrMsg(Nil, "response", readerId)
                   /\ out' = <<syncResponse(t)>>
              ELSE UNCHANGED <<pc, result, cause, out>>
    /\ UNCHANGED <<fixedVars, relayVars, accVars,
                   quit, errChan, payVars, histVars>>

\* The routing engine returns: rpcserver.go:3868-3884.
SyncRouted ==
    /\ rpc = "SendPaymentSync" /\ pc = "dispatch" /\ sync.pc = "routing"
    /\ pc' = "returned"
    /\ \/ /\ sync' = dispatchRouted(sync, ErrRouter)
          /\ out' = <<syncResponse(dispatchRouted(sync, ErrRouter))>>
          /\ result' = Nil /\ cause' = ErrMsg(Nil, "response", readerId)
       \/ /\ sync' = dispatchRouted(sync, Nil)
          /\ out' = <<syncResponse(dispatchRouted(sync, Nil))>>
          /\ result' = Nil /\ cause' = ErrMsg(Nil, "response", readerId)
       \/ /\ sync' = dispatchRouted(sync, Nil)
          /\ result' = ErrMarshall
          /\ cause' = ErrMsg(ErrMarshall, "marshall", readerId)
          /\ UNCHANGED out
    /\ UNCHANGED <<fixedVars, relayVars, accVars,
                   quit, errChan, payVars, histVars>>

\* The requests a sendPaymentSync call is tried on: those of a stream, one
\* that bypasses the preflight, a payment to this node, and one with a route
\* (from SendToRouteSync).
SyncRequests ==
    SendPaymentMsgs(1) \cup
    { [BlankReq(1) EXCEPT !.Dest = Key("A"), !.AmtMAtoms = 1000,
                          !.IgnoreMaxOutboundAmt = TRUE],
      [BlankReq(1) EXCEPT !.Dest = Key("self"), !.AmtMAtoms = 1000],
      [BlankReq(1) EXCEPT !.Dest = Key("A"), !.AmtMAtoms = 2000],
      [BlankReq(1) EXCEPT !.route = TRUE] }

\* The requests extractPaymentIntent is tried on: with and without a route,
\* with each kind of invoice, each form of destination, amount and payment
\* hash, with and without the self-payment flag, and with one of the other
\* fields invalid.
ResolveInvoices ==
    { NoPayReq, GarbagePayReq,
      PayReq(2, "B", TRUE, 2000, FALSE),
      PayReq(2, "B", TRUE, 2000, TRUE),
      PayReq(2, "B", TRUE, 4000, FALSE),
      PayReq(2, "B", FALSE, 0, FALSE),
      PayReq(2, "self", FALSE, 0, FALSE) }
ResolveDests ==
    { <<NoBytes, "">>, <<Key("A"), "">>, <<Key("self"), "zz">>,
      <<NoBytes, "self">> }
ResolveAmounts == { <<0, 0>>, <<0, 1000>>, <<4, 0>>, <<1, 1000>> }
ResolveHashStrings == { "", "02", "zz" }
ResolveFaults == { "none", "lastHop", "cltv", "custom", "features" }

ResolveRequests ==
    { [BlankReq(1) EXCEPT
          !.route = r, !.PaymentRequest = p,
          !.Dest = d[1], !.DestString = d[2],
          !.Amt = a[1], !.AmtMAtoms = a[2],
          !.PaymentHashString = h, !.AllowSelfPayment = self,
          !.LastHopPubkey = IF f = "lastHop" THEN Short("C") ELSE NoBytes,
          !.CltvLimitValid = (f # "cltv"),
          !.DestCustomRecordsValid = (f # "custom"),
          !.DestFeaturesValid = (f # "features")] :
      r \in BOOLEAN, p \in ResolveInvoices, d \in ResolveDests,
      a \in ResolveAmounts, h \in ResolveHashStrings, self \in BOOLEAN,
      f \in ResolveFaults }

(***************************************************************************)
(* OpenChannel and OpenChannelSync (rpcserver.go:1430-1721)                *)
(***************************************************************************)
\* An lnrpc.OpenChannelRequest together with the answers of the helpers the
\* handlers consult: NodePubkey stands for the two fields NodePubkey and
\* NodePubkeyString and is "none" (both empty), "badhex" (NodePubkey empty,
\* NodePubkeyString no hex), "bad" (no public key), "self" or "peer";
\* aux names the helper that fails, if one does; isSynced is the answer of
\* wallet.IsSynced ("yes", "no" or "err").
OpenReq(local, push, key, aux, isSynced) ==
    [LocalFundingAmount |-> local, PushAtoms |-> push, NodePubkey |-> key,
     aux |-> aux, isSynced |-> isSynced]

NoChanReq == [kind |-> "none"]

OpenRequests ==
    { OpenReq(3, 1, "peer", "ok", "yes"),
      OpenReq(3, 3, "peer", "ok", "yes"),
      OpenReq(3, 4, "peer", "ok", "yes"),
      OpenReq(0, 0, "peer", "ok", "yes"),
      OpenReq(3, 3, "bad", "ok", "yes"),
      OpenReq(3, 3, "peer", "ok", "no"),
      OpenReq(6, 1, "peer", "ok", "yes"),
      OpenReq(1, 0, "peer", "ok", "yes"),
      OpenReq(3, 1, "self", "ok", "yes"),
      OpenReq(3, 1, "none", "ok", "yes"),
      OpenReq(3, 1, "bad", "ok", "yes"),
      OpenReq(3, 1, "badhex", "ok", "yes"),
      OpenReq(3, 1, "peer", "minConfs", "yes"),
      OpenReq(3, 1, "peer", "fee", "yes"),
      OpenReq(3, 1, "peer", "closeAddr", "yes"),
      OpenReq(3, 1, "peer", "ok", "no"),
      OpenReq(3, 1, "peer", "ok", "err") }

\* A check that lets a push of the whole funding amount through.
pushAboveOnly(in) == in.PushAtoms > in.LocalFundingAmount

\* if remoteInitialBalance >= localFundingAmt (rpcserver.go:1451, 1638)
pushTooLarge(in) == in.PushAtoms >= in.LocalFundingAmount

\* rpcserver.go:1441-1526: the checks of OpenChannel before the engine is
\* called, in the order of the code.  Nil when all pass.
openChannelChecks(in) ==
    IF pushTooLarge(in) THEN ErrPushTooLarge
    ELSE IF in.LocalFundingAmount > MaxFundingAmount THEN ErrFundingTooLarge
    ELSE IF in.LocalFundingAmount < minChanFundingSize THEN ErrChanTooSmall
    ELSE IF in.aux = "minConfs" THEN ErrMinConfs
    ELSE IF in.NodePubkey \in {"none", "badhex"} THEN ErrNoNodeKey
    ELSE IF in.NodePubkey = "bad" THEN ErrParseKey
    ELSE IF in.NodePubkey = "self" THEN ErrOpenToSelf
    ELSE IF in.aux = "fee" THEN ErrFee
    ELSE IF in.aux = "closeAddr" THEN ErrCloseAddr
    ELSE Nil

\* rpcserver.go:1608-1677: the checks of OpenChannelSync, in the order of the
\* code.
openChannelSyncChecks(in) ==
    IF in.isSynced = "err" THEN ErrWalletSync
    ELSE IF in.isSynced = "no" THEN ErrNotSynced
    ELSE IF in.NodePubkey = "badhex" THEN ErrHex
    ELSE IF in.NodePubkey \in {"bad", "none"} THEN ErrParseKey
    ELSE IF pushTooLarge(in) THEN ErrPushTooLarge
    ELSE IF in.LocalFundingAmount < minChanFundingSize THEN ErrChanTooSmall
    ELSE IF in.aux = "minConfs" THEN ErrMinConfs
    ELSE IF in.aux = "fee" THEN ErrFee
    ELSE IF in.aux = "closeAddr" THEN ErrCloseAddr
    ELSE Nil

\* The engine before any call.
NoEngine == [calls |-> <<>>, emitted |-> 0, final |-> FALSE, waiter |-> "none"]
\* An engine asked twice for the same operation.
engineRetried(e, op) == [e EXCEPT !.calls = Append(Append(@, op), op)]

\* r.server.OpenChannel(req), htlcSwitch.CloseLink and ForceCloseContract
\* (rpcserver.go:1544, 1692, 1840, 1928): the operation is invoked.
engineCalled(e, op) == [e EXCEPT !.calls = Append(@, op)]

\* The update a call's feed carries first or in between, and the one that
\* ends it.
pendingKind(call) ==
    IF call = "CloseChannel" THEN "pendingUpdate" ELSE "ChanPending"
terminalKind(call) ==
    IF call = "CloseChannel" THEN "channelCloseUpdate" ELSE "ChanOpen"

\* What the engine may put on the feed besides: a ChanOpen update whose
\* channel point GetChanPointFundingTxid cannot parse (rpcserver.go:1567),
\* and a close update of a type createRPCCloseUpdate does not know
\* (rpcserver.go:1995).
oddKind(call) ==
    IF call = "CloseChannel" THEN "unknownUpdate" ELSE "ChanOpenNoTxid"
feedKinds(call) == {pendingKind(call), terminalKind(call), oddKind(call)}

\* A loop that takes no update for the last one.
neverTerminal(u) == FALSE

\* The updates after which the loops break: case
\* *lnrpc.OpenStatusUpdate_ChanOpen (rpcserver.go:1565) and case
\* *channelCloseUpdate (rpcserver.go:1958).
isTerminal(u) == u \in {"channelCloseUpdate", "ChanOpen", "ChanOpenNoTxid"}

\* A shutdown branch that first writes what the feed still holds.
quitFlushesFeed(o, feed) == o \o feed

\* What the stream holds after the loop took its r.quit branch
\* (rpcserver.go:1578-1579, 1964-1965): what it held before.
quitWrites(o, feed) == o

\* A force close that does not announce the closing transaction.
noFirstUpdate == <<>>

\* The feed of a force close when the relay loop starts: the pending update
\* (rpcserver.go:1852-1855).
forceCloseFeed == <<"pendingUpdate">>

\* The handler returns err because of `from`.
Return(err, from) ==
    /\ pc' = "returned"
    /\ result' = err
    /\ cause' = ErrMsg(err, from, readerId)

\* rpcserver.go:1437-1544
OpenChannelEnter ==
    /\ rpc = "OpenChannel" /\ pc = "start"
    /\ IF ~started
       THEN Return(ErrServerNotActive, "notActive") /\ UNCHANGED engine
       ELSE IF openChannelChecks(chanReq) # Nil
       THEN Return(openChannelChecks(chanReq), "validation")
            /\ UNCHANGED engine
       ELSE /\ engine' = engineCalled(engine, "OpenChannel")
            /\ pc' = "loop"
            /\ UNCHANGED <<result, cause>>
    /\ UNCHANGED <<fixedVars, quit, errChan, out, payVars, sync, histVars,
                   updateChan, taken, accVars>>

\* The feeds r.server.OpenChannel and htlcSwitch.CloseLink return are fed by
\* the engine: updates, the last of which may be the terminal one.  The
\* feed is given the capacity of the force-close feed.
EngineUpdate ==
    /\ engine.calls \in {<<"OpenChannel">>, <<"CloseLink">>}
    /\ ~engine.final
    /\ engine.emitted < MaxUpdates
    /\ feedHasRoom(updateChan)
    /\ \E u \in feedKinds(rpc) :
          /\ updateChan' = Append(updateChan, u)
          /\ engine' = [engine EXCEPT !.emitted = @ + 1,
                                      !.final = isTerminal(u)]
    /\ UNCHANGED <<fixedVars, quit, callVars, errChan, out, payVars, sync,
                   histVars, taken, accVars>>

\* The engine gives up: one error on the error feed.
EngineError ==
    /\ engine.calls \in {<<"OpenChannel">>, <<"CloseLink">>}
    /\ ~engine.final
    /\ errChanHasRoom(errChan)
    /\ PutErr(ErrMsg(ErrEngine, "engine", readerId))
    /\ engine' = [engine EXCEPT !.final = TRUE]
    /\ UNCHANGED <<fixedVars, quit, callVars, out, payVars, sync, writeFailed,
                   updateChan, taken, accVars>>

\* rpcserver.go:1550-1553
OpenChannelErr ==
    /\ rpc = "OpenChannel" /\ pc = "loop" /\ Len(errChan) > 0
    /\ pc' = "returned"
    /\ result' = Head(errChan).err
    /\ cause' = Head(errChan)
    /\ errChan' = Tail(errChan)
    /\ UNCHANGED <<fixedVars, quit, out, payVars, sync, histVars, relayVars,
                   accVars>>

\* rpcserver.go:1554-1577: the update is written; a failed write ends the
\* call with the write error, a ChanOpen update ends it: with the error of
\* GetChanPointFundingTxid when its channel point does not parse, with nil
\* otherwise.
OpenChannelUpdate ==
    /\ rpc = "OpenChannel" /\ pc = "loop" /\ Len(updateChan) > 0
    /\ updateChan' = Tail(updateChan)
    /\ taken' = Append(taken, Head(updateChan))
    /\ \/ Return(ErrSend, "send") /\ UNCHANGED out
       \/ /\ out' = Append(out, Head(updateChan))
          /\ IF ~isTerminal(Head(updateChan)) THEN UNCHANGED callVars
             ELSE IF Head(updateChan) = "ChanOpenNoTxid"
             THEN Return(ErrTxid, "txid")
             ELSE Return(Nil, "terminal")
    /\ UNCHANGED <<fixedVars, quit, errChan, payVars, sync, histVars, engine,
                   accVars>>

\* rpcserver.go:1578-1579
OpenChannelQuit ==
    /\ rpc = "OpenChannel" /\ pc = "loop" /\ quit
    /\ Return(shutdownResult(rpc), "quit")
    /\ out' = quitWrites(out, updateChan)
    /\ UNCHANGED <<fixedVars, quit, errChan, payVars, sync, histVars,
                   relayVars, accVars>>

\* rpcserver.go:1602-1692
OpenChannelSyncEnter ==
    /\ rpc = "OpenChannelSync" /\ pc = "start"
    /\ IF ~started
       THEN Return(ErrServerNotActive, "notActive") /\ UNCHANGED engine
       ELSE IF openChannelSyncChecks(chanReq) # Nil
       THEN Return(openChannelSyncChecks(chanReq), "validation")
            /\ UNCHANGED engine
       ELSE /\ engine' = engineCalled(engine, "OpenChannel")
            /\ pc' = "loop"
            /\ UNCHANGED <<result, cause>>
    /\ UNCHANGED <<fixedVars, quit, errChan, out, payVars, sync, histVars,
                   updateChan, taken, accVars>>

\* rpcserver.go:1695-1698
OpenChannelSyncErr ==
    /\ rpc = "OpenChannelSync" /\ pc = "loop" /\ Len(errChan) > 0
    /\ pc' = "returned"
    /\ result' = Head(errChan).err
    /\ cause' = Head(errChan)
    /\ errChan' = Tail(errChan)
    /\ UNCHANGED <<fixedVars, quit, out, payVars, sync, histVars, relayVars,
                   accVars>>

\* rpcserver.go:1702-1717: the first update is asserted to be a ChanPending
\* one; the assertion has no ok form, so any other update panics.
OpenChannelSyncUpdate ==
    /\ rpc = "OpenChannelSync" /\ pc = "loop" /\ Len(updateChan) > 0
    /\ updateChan' = Tail(updateChan)
    /\ taken' = Append(taken, Head(updateChan))
    /\ IF Head(updateChan) = "ChanPending"
       THEN Return(Nil, "update") /\ out' = Append(out, "ChannelPoint")
       ELSE Return("panic", "panic") /\ UNCHANGED out
    /\ UNCHANGED <<fixedVars, quit, errChan, payVars, sync, histVars, engine,
                   accVars>>

\* rpcserver.go:1718-1719
OpenChannelSyncQuit ==
    /\ rpc = "OpenChannelSync" /\ pc = "loop" /\ quit
    /\ Return(shutdownResult(rpc), "quit")
    /\ UNCHANGED <<fixedVars, quit, errChan, out, payVars, sync, histVars,
                   relayVars, accVars>>

(***************************************************************************)
(* CloseChannel (rpcserver.go:1764-1970)                                   *)
(***************************************************************************)
\* An lnrpc.CloseChannelRequest together with the answers of the node's
\* subsystems: fail names the step of the validation that fails, if one does.
CloseReq(force, fail) == [Force |-> force, fail |-> fail]

CloseRequests ==
    { CloseReq(TRUE, "ok"), CloseReq(FALSE, "ok"),
      CloseReq(FALSE, "noChanPoint"), CloseReq(TRUE, "forceFee"),
      CloseReq(FALSE, "txid"), CloseReq(TRUE, "noChannel"),
      CloseReq(TRUE, "bestBlock"), CloseReq(FALSE, "offline"),
      CloseReq(FALSE, "fee"), CloseReq(FALSE, "activeHtlcs"),
      CloseReq(FALSE, "deliveryAddr") }

\* rpcserver.go:1776-1810: the checks both kinds of close share.
closeChannelChecks(in) ==
    IF in.fail = "noChanPoint" THEN ErrNoChanPoint
    ELSE IF in.Force /\ in.fail = "forceFee" THEN ErrForceFee
    ELSE IF in.fail = "txid" THEN ErrTxid
    ELSE IF in.fail = "noChannel" THEN ErrNoChannel
    ELSE Nil

\* rpcserver.go:1872-1926: the checks of a cooperative close.
coopCloseChecks(in) ==
    IF in.fail = "offline" THEN ErrPeerOffline
    ELSE IF in.fail = "fee" THEN ErrFee
    ELSE IF in.fail = "activeHtlcs" THEN ErrActiveHtlcs
    ELSE IF in.fail = "deliveryAddr" THEN ErrDeliveryAddr
    ELSE Nil

\* rpcserver.go:1770-1931.  A force close calls ForceCloseContract, puts the
\* pending update on a feed of its own and starts waitForChanToClose; a
\* cooperative close calls CloseLink and takes the engine's feeds.
CloseChannelEnter ==
    /\ rpc = "CloseChannel" /\ pc = "start"
    /\ IF ~started
       THEN Return(ErrServerNotActive, "notActive")
            /\ UNCHANGED relayVars
       ELSE IF closeChannelChecks(chanReq) # Nil
       THEN Return(closeChannelChecks(chanReq), "validation")
            /\ UNCHANGED relayVars
       ELSE IF chanReq.Force /\ chanReq.fail = "bestBlock"
       THEN Return(ErrBestBlock, "validation") /\ UNCHANGED relayVars
       ELSE IF chanReq.Force
       THEN \/ /\ Return(ErrForceClose, "engine")
               /\ engine' = engineCalled(engine, "ForceCloseContract")
               /\ UNCHANGED <<updateChan, taken>>
            \/ /\ engine' = [engineCalled(engine, "ForceCloseContract")
                               EXCEPT !.waiter = "waiting"]
               /\ updateChan' = forceCloseFeed
               /\ pc' = "loop"
               /\ UNCHANGED <<result, cause, taken>>
       ELSE IF coopCloseChecks(chanReq) # Nil
       THEN Return(coopCloseChecks(chanReq), "validation")
            /\ UNCHANGED relayVars
       ELSE /\ engine' = engineCalled(engine, "CloseLink")
            /\ pc' = "loop"
            /\ UNCHANGED <<result, cause, updateChan, taken>>
    /\ UNCHANGED <<fixedVars, quit, errChan, out, payVars, sync, histVars,
                   accVars>>

\* rpcserver.go:1860-1867: the closing transaction confirmed and
\* waitForChanToClose runs the callback, which sends the close update.
WaiterClosed ==
    /\ engine.waiter = "waiting"
    /\ feedHasRoom(updateChan)
    /\ updateChan' = Append(updateChan, "channelCloseUpdate")
    /\ engine' = [engine EXCEPT !.waiter = "done"]
    /\ UNCHANGED <<fixedVars, quit, callVars, errChan, out, payVars, sync,
                   histVars, taken, accVars>>

\* waitForChanToClose could not register for the confirmation, or the
\* notifier shut down: it sends the error on errChan and returns.
WaiterError ==
    /\ engine.waiter = "waiting"
    /\ errChanHasRoom(errChan)
    /\ PutErr(ErrMsg(ErrEngine, "engine", readerId))
    /\ engine' = [engine EXCEPT !.waiter = "done"]
    /\ UNCHANGED <<fixedVars, quit, callVars, out, payVars, sync, writeFailed,
                   updateChan, taken, accVars>>

\* rpcserver.go:1935-1938
CloseChannelErr ==
    /\ rpc = "CloseChannel" /\ pc = "loop" /\ Len(errChan) > 0
    /\ pc' = "returned"
    /\ result' = Head(errChan).err
    /\ cause' = Head(errChan)
    /\ errChan' = Tail(errChan)
    /\ UNCHANGED <<fixedVars, quit, out, payVars, sync, histVars, relayVars,
                   accVars>>

\* rpcserver.go:1939-1963: the update is converted and written; an update
\* createRPCCloseUpdate does not know ends the call with its error, a failed
\* write with the write error, a channelCloseUpdate with nil.
CloseChannelUpdate ==
    /\ rpc = "CloseChannel" /\ pc = "loop" /\ Len(updateChan) > 0
    /\ updateChan' = Tail(updateChan)
    /\ taken' = Append(taken, Head(updateChan))
    /\ IF Head(updateChan) = "unknownUpdate"
       THEN Return(ErrUnknownUpdate, "convert") /\ UNCHANGED out
       ELSE \/ Return(ErrSend, "send") /\ UNCHANGED out
            \/ /\ out' = Append(out, Head(updateChan))
               /\ IF isTerminal(Head(updateChan))
                  THEN Return(Nil, "terminal")
                  ELSE UNCHANGED callVars
    /\ UNCHANGED <<fixedVars, quit, errChan, payVars, sync, histVars, engine,
                   accVars>>

\* rpcserver.go:1964-1965
CloseChannelQuit ==
    /\ rpc = "CloseChannel" /\ pc = "loop" /\ quit
    /\ Return(shutdownResult(rpc), "quit")
    /\ out' = quitWrites(out, updateChan)
    /\ UNCHANGED <<fixedVars, quit, errChan, payVars, sync, histVars,
                   relayVars, accVars>>

(***************************************************************************)
(* AddInvoice (rpcserver.go:3980-4037)                                     *)
(***************************************************************************)
\* rpcserver.go:3983-4027: the capacity preflight, the amount and the
\* preimage are checked, then invoicesrpc.AddInvoice is called.
AddInvoiceEnter ==
    /\ rpc = "AddInvoice" /\ pc = "start"
    /\ LET chk == checkCanReceiveInvoice(invoice, openChannels)
           amt == UnmarshallAmt(invoice.Value, invoice.ValueMAtoms)
       IN  IF chk.err # Nil
           THEN Return(chk.err, "preflight") /\ UNCHANGED engine
           ELSE IF amt.err # Nil
           THEN Return(amt.err, "validation") /\ UNCHANGED engine
           ELSE IF invoice.RPreimage = "bad"
           THEN Return(ErrPreimage, "validation") /\ UNCHANGED engine
           ELSE /\ engine' = engineCalled(engine, "AddInvoice")
                /\ pc' = "adding"
                /\ UNCHANGED <<result, cause>>
    /\ UNCHANGED <<fixedVars, quit, errChan, out, payVars, sync, histVars,
                   updateChan, taken, accVars>>

\* rpcserver.go:4025-4036: invoicesrpc.AddInvoice returns.
AddInvoiceDone ==
    /\ rpc = "AddInvoice" /\ pc = "adding"
    /\ \/ Return(ErrAddInvoice, "engine") /\ UNCHANGED out
       \/ Return(Nil, "response") /\ out' = <<"AddInvoiceResponse">>
    /\ UNCHANGED <<fixedVars, quit, errChan, payVars, sync, histVars,
                   relayVars, accVars>>

\* The invoices AddInvoice is tried on.
Invoices ==
    { Invoice(v, m, ignore, pre) :
        v \in {0, 3, 4}, m \in {0, 2000}, ignore \in BOOLEAN,
        pre \in {"none", "ok", "bad"} }

(***************************************************************************)
(* ChannelAcceptor (rpcserver.go:5691-5841)                                *)
(***************************************************************************)
DecideIds == 1..MaxDecide
\* The pending-channel ids of the funding requests.
PendingIds == {"a", "b"}

\* A demultiplexReq call: respChan is its response slot (buffer of 1), ret
\* the value it returned and why the reason; timers counts the timers the
\* call has created with time.After, replies the client replies whose
\* accept value was put in the slot.
NoDecide ==
    [pc |-> "idle", id |-> "a", respChan |-> <<>>, ret |-> FALSE,
     why |-> "none", timers |-> 0, replies |-> <<>>]
decideReturns(c, ret, why) ==
    [c EXCEPT !.pc = "done", !.ret = ret, !.why = why]

\* The reading goroutine; late records, for the reply it holds, whether the
\* reply came in late (see lateReply).
AcceptReaderAt(p, resp) == [pc |-> p, resp |-> resp, late |-> FALSE]
NoResp == [id |-> "a", accept |-> FALSE]

\* A second wait with a timer of its own.
timerPerWait(n) == n + 1

\* The timers of a call when it starts to wait for the reply
\* (rpcserver.go:5730-5737): the second select reads the channel that
\* time.After returned at 5714, no timer is created.
timersAtWait(n) == n

\* A response slot without a buffer and without a receiver.
slotUnbuffered(ch) == FALSE

\* respChan := make(chan bool, 1) (rpcserver.go:5713): a send proceeds when
\* the buffer is empty.
slotHasRoom(ch) == Len(ch) < 1

\* acceptRequests := make(map[[32]byte]chan bool), and its operations.
emptyMap == [x \in {} |-> 1]
mapInsert(m, k, v) ==
    [x \in DOMAIN m \cup {k} |-> IF x = k THEN v ELSE m[x]]
\* A lookup that finds some entry, whatever the key.
anySlot(m, k) == CHOOSE d \in {m[x] : x \in DOMAIN m} : TRUE

\* respChan, ok := acceptRequests[pendingID] (rpcserver.go:5823), ok being
\* true.
slotOf(m, k) == m[k]

\* A map that keeps the entry.
mapKept(m, k) == m

\* delete(acceptRequests, pendingID) (rpcserver.go:5833)
mapDelete(m, k) == [x \in DOMAIN m \ {k} |-> m[x]]

\* rpcserver.go:5692-5788: the closure is registered with the chained
\* acceptor and the reading goroutine is started.
AcceptorEnter ==
    /\ rpc = "ChannelAcceptor" /\ pc = "start"
    /\ pc' = "loop"
    /\ acceptReader' = AcceptReaderAt("recv", NoResp)
    /\ UNCHANGED <<fixedVars, quit, result, cause, errChan, out, payVars,
                   sync, histVars, relayVars, decide, acceptRequests>>

\* The funding manager asks for a decision (rpcserver.go:5705-5714): the
\* closure can be called while it is registered.  The ids being
\* interchangeable, the first call is given the first of them.
DecideStart(d) ==
    /\ rpc = "ChannelAcceptor" /\ pc = "loop"
    /\ decide[d].pc = "idle"
    /\ \A e \in DecideIds : e < d => decide[e].pc # "idle"
    /\ \E id \in (IF d = 1 THEN {"a"} ELSE PendingIds) :
          decide' = [decide EXCEPT ![d].pc = "offer", ![d].id = id,
                                   ![d].timers = 1]
    /\ UNCHANGED <<fixedVars, quit, callVars, errChan, out, payVars, sync,
                   histVars, relayVars, acceptRequests, acceptReader>>

\* rpcserver.go:5719-5722 and 5734-5737: the one timer of the call fires.
DecideTimeout(d) ==
    /\ decide[d].pc \in {"offer", "wait"}
    /\ decide' = [decide EXCEPT ![d] = decideReturns(@, FALSE, "timeout")]
    /\ UNCHANGED <<fixedVars, quit, callVars, errChan, out, payVars, sync,
                   histVars, relayVars, acceptRequests, acceptReader>>

\* A closure that watches r.quit alone.
shutdownOnly(acceptorQuit, serverQuit) == serverQuit

\* case <-quit and case <-r.quit (rpcserver.go:5723-5726, 5738-5741): the
\* acceptor's quit, closed when the handler returns (5700-5701), or r.quit
\* is closed.
teardownSeen(acceptorQuit, serverQuit) == acceptorQuit \/ serverQuit

\* rpcserver.go:5723-5726 and 5738-5741: the acceptor's quit or r.quit is
\* closed.
DecideQuit(d) ==
    /\ decide[d].pc \in {"offer", "wait"}
    /\ teardownSeen(reqQuit, quit)
    /\ decide' = [decide EXCEPT ![d] = decideReturns(@, FALSE, "quit")]
    /\ UNCHANGED <<fixedVars, quit, callVars, errChan, out, payVars, sync,
                   histVars, relayVars, acceptRequests, acceptReader>>

\* rpcserver.go:5732-5733
DecideResp(d) ==
    /\ decide[d].pc = "wait"
    /\ decide[d].respChan # <<>>
    /\ decide' = [decide EXCEPT
                    ![d] = [decideReturns(@, Head(@.respChan), "resp")
                              EXCEPT !.respChan = Tail(@)]]
    /\ UNCHANGED <<fixedVars, quit, callVars, errChan, out, payVars, sync,
                   histVars, relayVars, acceptRequests, acceptReader>>

\* rpcserver.go:5792-5818 with the sender's side at 5718: the request is
\* taken, its slot is entered in the map and the request is written to the
\* client; a failed write ends the call (and closes quit, 5701).
AcceptorNewRequest(d) ==
    /\ rpc = "ChannelAcceptor" /\ pc = "loop"
    /\ decide[d].pc = "offer"
    /\ decide' = [decide EXCEPT ![d].pc = "wait",
                                 ![d].timers = timersAtWait(@)]
    /\ acceptRequests' = mapInsert(acceptRequests, decide[d].id, d)
    /\ \/ /\ out' = Append(out, decide[d].id)
          /\ UNCHANGED <<callVars, reqQuit>>
       \/ /\ Return(ErrSend, "send")
          /\ reqQuit' = TRUE
          /\ UNCHANGED out
    /\ UNCHANGED <<fixedVars, quit, errChan, htlcSema, reader, tasks, lock,
                   nRecv, sync, histVars, relayVars, acceptReader>>

\* rpcserver.go:5819-5833 with the sender's side at 5779: a reply whose id
\* is not in the map is dropped; otherwise the slot gets the reply's value
\* and the entry is deleted.  The send on a full slot would block the loop.
AcceptorResponse ==
    /\ rpc = "ChannelAcceptor" /\ pc = "loop"
    /\ acceptReader.pc = "put"
    /\ acceptReader' = AcceptReaderAt("recv", NoResp)
    /\ LET resp == acceptReader.resp
       IN  IF resp.id \notin DOMAIN acceptRequests
           THEN UNCHANGED <<pc, decide, acceptRequests>>
           ELSE IF ~slotHasRoom(decide[slotOf(acceptRequests,
                                               resp.id)].respChan)
           THEN pc' = "blocked" /\ UNCHANGED <<decide, acceptRequests>>
           ELSE /\ decide' = [decide EXCEPT
                                ![slotOf(acceptRequests, resp.id)] =
                                    [@ EXCEPT
                                       !.respChan = Append(@, resp.accept),
                                       !.replies = Append(@, resp)]]
                /\ acceptRequests' = mapDelete(acceptRequests, resp.id)
                /\ UNCHANGED pc
    /\ UNCHANGED <<fixedVars, quit, result, cause, errChan, out, payVars,
                   sync, histVars, relayVars>>

\* rpcserver.go:5834-5836
AcceptorErr ==
    /\ rpc = "ChannelAcceptor" /\ pc = "loop" /\ Len(errChan) > 0
    /\ pc' = "returned"
    /\ result' = Head(errChan).err
    /\ cause' = Head(errChan)
    /\ errChan' = Tail(errChan)
    /\ reqQuit' = TRUE
    /\ UNCHANGED <<fixedVars, quit, out, htlcSema, reader, tasks, lock,
                   nRecv, sync, histVars, relayVars, accVars>>

\* rpcserver.go:5837-5838
AcceptorQuit ==
    /\ rpc = "ChannelAcceptor" /\ pc = "loop" /\ quit
    /\ Return(shutdownResult(rpc), "quit")
    /\ reqQuit' = TRUE
    /\ UNCHANGED <<fixedVars, quit, errChan, out, htlcSema, reader, tasks,
                   lock, nRecv, sync, histVars, relayVars, accVars>>

\* A reply with the pending-channel id k comes in late: the call entered in
\* the map under k has returned on its timer and no call with that id is
\* in flight, so the reply answers the request of the call that timed out.
lateReply(k) ==
    /\ k \in DOMAIN acceptRequests
    /\ decide[acceptRequests[k]].pc = "done"
    /\ decide[acceptRequests[k]].why = "timeout"
    /\ \A d \in DecideIds :
          decide[d].pc \in {"offer", "wait"} => decide[d].id # k

\* rpcserver.go:5762, 5768-5774: the client's reply arrives.
AcceptReaderRecvMsg ==
    /\ acceptReader.pc = "recv"
    /\ \E id \in PendingIds, accept \in BOOLEAN :
          acceptReader' =
             [AcceptReaderAt("put", [id |-> id, accept |-> accept])
                EXCEPT !.late = lateReply(id)]
    /\ UNCHANGED <<fixedVars, quit, callVars, errChan, out, payVars, sync,
                   histVars, relayVars, decide, acceptRequests>>

\* rpcserver.go:5762-5763: the stream ended or broke.
AcceptReaderRecvErr ==
    /\ acceptReader.pc = "recv"
    /\ acceptReader' = AcceptReaderAt("putErr", NoResp)
    /\ UNCHANGED <<fixedVars, quit, callVars, errChan, out, payVars, sync,
                   histVars, relayVars, decide, acceptRequests>>

\* rpcserver.go:5764-5765
AcceptReaderPutErr ==
    /\ acceptReader.pc = "putErr"
    /\ errChanHasRoom(errChan)
    /\ PutErr(ErrMsg(ErrRecv, "recv", readerId))
    /\ acceptReader' = AcceptReaderAt("done", NoResp)
    /\ UNCHANGED <<fixedVars, quit, callVars, out, payVars, sync,
                   writeFailed, relayVars, decide, acceptRequests>>

\* rpcserver.go:5780-5783
AcceptReaderQuit ==
    /\ acceptReader.pc = "put"
    /\ reqQuit \/ quit
    /\ acceptReader' = AcceptReaderAt("done", NoResp)
    /\ UNCHANGED <<fixedVars, quit, callVars, errChan, out, payVars, sync,
                   histVars, relayVars, decide, acceptRequests>>

(***************************************************************************)
(* The specification.                                                      *)
(***************************************************************************)
\* The channel lists a call is run against: none, and one live channel
\* with 3 atoms above its reserve.
ChannelConfigs ==
    { <<>>, <<Chan(TRUE, TRUE, TRUE, 4000, 1, 4000, 1, 7)>> }

\* The channels the preflight is tried on: one whose peer is offline, one
\* without a link, one whose link is not eligible (all three with plenty
\* of capacity), and live ones with a capacity of 1, of 3 and of -1 atoms
\* on either side, and one of capacity 1 that the graph does not know.
ChanKinds ==
    { Chan(FALSE, TRUE, TRUE, 9000, 1, 9000, 1, 4),
      Chan(TRUE, FALSE, TRUE, 9000, 1, 9000, 1, 5),
      Chan(TRUE, TRUE, FALSE, 9000, 1, 9000, 1, 6),
      Chan(TRUE, TRUE, TRUE, 2000, 1, 2000, 1, 7),
      Chan(TRUE, TRUE, TRUE, 4000, 1, 4000, 1, 8),
      Chan(TRUE, TRUE, TRUE, 0, 1, 0, 1, 9),
      Chan(TRUE, TRUE, TRUE, 2000, 1, 2000, 1, 0) }

\* Every list of at most MaxChans of them.
PreflightConfigs == UNION { [1..n -> ChanKinds] : n \in 0..MaxChans }

\* What a sendPaymentSync call is run on: a request of SyncRequests against
\* every list of channels, or a request of ResolveRequests against the one
\* live channel.
SyncInputs ==
    { [req |-> r, chans |-> c] : r \in SyncRequests, c \in PreflightConfigs }
    \cup
    { [req |-> r, chans |-> <<Chan(TRUE, TRUE, TRUE, 4000, 1, 4000, 1, 7)>>] :
        r \in ResolveRequests }

PaymentCalls == StreamCalls \cup {"SendPaymentSync"}
OpenCalls    == {"OpenChannel", "OpenChannelSync"}
Calls ==
    PaymentCalls \cup OpenCalls \cup
    {"CloseChannel", "ChannelAcceptor", "AddInvoice"}

Init ==
    /\ rpc \in Calls
    /\ started \in IF rpc \in {"ChannelAcceptor", "AddInvoice"} THEN {TRUE}
                   ELSE BOOLEAN
    /\ IF rpc = "SendPaymentSync"
       THEN \E in \in SyncInputs :
               /\ openChannels = in.chans
               /\ sync = [NoTask EXCEPT !.req = in.req]
       ELSE /\ sync = NoTask
            /\ openChannels \in IF rpc \in StreamCalls THEN ChannelConfigs
                                ELSE IF rpc = "AddInvoice"
                                THEN PreflightConfigs
                                ELSE {<<>>}
    /\ invoice \in IF rpc = "AddInvoice" THEN Invoices ELSE {NoInvoice}
    /\ chanReq \in IF rpc \in OpenCalls THEN OpenRequests
                   ELSE IF rpc = "CloseChannel" THEN CloseRequests
                   ELSE {NoChanReq}
    /\ updateChan = <<>> /\ engine = NoEngine /\ taken = <<>>
    /\ decide = [d \in DecideIds |-> NoDecide]
    /\ acceptRequests = emptyMap
    /\ acceptReader = AcceptReaderAt("none", NoResp)
    /\ htlcFee = 1
    /\ quit = FALSE
    /\ pc = "start" /\ result = "none" /\ cause = NoCause
    /\ errChan = <<>> /\ out = <<>>
    /\ htlcSema = 0 /\ reqQuit = FALSE
    /\ reader = ReaderAt("none", "none")
    /\ tasks = [i \in TaskIds |-> NoTask]
    /\ lock = {}
    /\ nRecv = 0
    /\ firstPut = <<>> /\ writeFailed = FALSE

TaskStep(i) ==
    \/ TaskAcquire(i) \/ TaskPreflight(i) \/ TaskRouted(i)
    \/ TaskSendLock(i) \/ TaskSendDone(i) \/ TaskPutErr(i)

ReaderStep ==
    \/ ReaderSelect \/ ReaderPutQuit \/ ReaderPutEOF \/ ReaderPutRecvErr
    \/ ReaderSendLock \/ ReaderSendDone \/ ReaderPutSendErr
    \/ ReaderHandoffQuit

MainStep == PayEnter \/ MainErr \/ Handoff

SyncStep == SyncEnter \/ SyncPreflight \/ SyncRouted

AddInvoiceStep == AddInvoiceEnter \/ AddInvoiceDone

OpenChannelStep ==
    \/ OpenChannelEnter \/ OpenChannelErr \/ OpenChannelUpdate
    \/ OpenChannelQuit

OpenChannelSyncStep ==
    \/ OpenChannelSyncEnter \/ OpenChannelSyncErr \/ OpenChannelSyncUpdate
    \/ OpenChannelSyncQuit

CloseChannelStep ==
    \/ CloseChannelEnter \/ CloseChannelErr \/ CloseChannelUpdate
    \/ CloseChannelQuit

\* What the channel-management engine and waitForChanToClose do.
EngineStep == EngineUpdate \/ EngineError \/ WaiterClosed \/ WaiterError

AcceptorStep ==
    \/ AcceptorEnter \/ AcceptorResponse \/ AcceptorErr \/ AcceptorQuit
    \/ \E d \in DecideIds : AcceptorNewRequest(d)

AcceptReaderStep == AcceptReaderPutErr \/ AcceptReaderQuit

\* A demultiplexReq call returns.
DecideStep(d) == DecideTimeout(d) \/ DecideQuit(d) \/ DecideResp(d)

\* What the client does on the inbound stream.
ClientStep ==
    \/ ReaderRecvMsg \/ ReaderRecvEOF \/ ReaderRecvErr
    \/ AcceptReaderRecvMsg \/ AcceptReaderRecvErr

Next ==
    \/ MainStep
    \/ ReaderStep
    \/ ClientStep
    \/ \E i \in TaskIds : TaskStep(i)
    \/ SyncStep
    \/ AddInvoiceStep
    \/ OpenChannelStep
    \/ OpenChannelSyncStep
    \/ CloseChannelStep
    \/ EngineStep
    \/ AcceptorStep
    \/ AcceptReaderStep
    \/ \E d \in DecideIds : DecideStart(d) \/ DecideStep(d)
    \/ Shutdown

Spec == Init /\ [][Next]_vars

\* Every goroutine that can take a step eventually takes one, every call
\* of the routing engine and of stream.Send returns, and the handler's own
\* goroutine runs.  Nothing is assumed of the client or of the shutdown.
Fairness ==
    /\ WF_vars(MainStep)
    /\ WF_vars(ReaderStep)
    /\ \A i \in TaskIds : WF_vars(TaskStep(i))
    /\ WF_vars(SyncStep)
    /\ WF_vars(AddInvoiceStep)
    /\ WF_vars(OpenChannelStep)
    /\ WF_vars(OpenChannelSyncStep)
    /\ WF_vars(CloseChannelStep)
    /\ WF_vars(AcceptorStep)
    /\ WF_vars(AcceptReaderStep)
    /\ \A d \in DecideIds : WF_vars(DecideStep(d))

FairSpec == Spec /\ Fairness

\* The streaming call SendPayment on its own, from its entry on: the
\* handler, its reader, its dispatch goroutines, the client and the shutdown
\* signal, with the fairness of FairSpec.
DispatchInit == Init /\ rpc = "SendPayment" /\ started

DispatchNext ==
    \/ MainStep
    \/ ReaderStep
    \/ ReaderRecvMsg \/ ReaderRecvEOF \/ ReaderRecvErr
    \/ \E i \in TaskIds : TaskStep(i)
    \/ Shutdown

DispatchSpec ==
    /\ DispatchInit /\ [][DispatchNext]_vars
    /\ WF_vars(MainStep) /\ WF_vars(ReaderStep)
    /\ \A i \in TaskIds : WF_vars(TaskStep(i))

\* The ChannelAcceptor call on its own: the handler, its reader, the
\* client, the decide calls and the shutdown signal.  The one thing assumed
\* is that a decide call whose select can take a quit case runs; nothing is
\* assumed of its timer.
AcceptorInit == Init /\ rpc = "ChannelAcceptor"

AcceptorNext ==
    \/ AcceptorStep
    \/ AcceptReaderStep
    \/ AcceptReaderRecvMsg \/ AcceptReaderRecvErr
    \/ \E d \in DecideIds : DecideStart(d) \/ DecideStep(d)
    \/ Shutdown

AcceptorSpec ==
    /\ AcceptorInit /\ [][AcceptorNext]_vars
    /\ WF_vars(\E d \in DecideIds : DecideQuit(d))

(***************************************************************************)
(* Properties of the streaming payment call.                               *)
(***************************************************************************)
\* A streaming call that got past the Started() check.
Running == rpc \in StreamCalls /\ started /\ pc # "start"

\* The dispatch goroutines that hold a slot, and those waiting for one.
Held ==
    {i \in TaskIds :
        tasks[i].pc \in {"preflight", "routing", "respond", "inSend", "putErr"}}
Waiting == {i \in TaskIds : tasks[i].pc = "acquire"}

\* The writers inside stream.Send.
InSend ==
    {i \in TaskIds : tasks[i].pc = "inSend"} \cup
    (IF reader.pc = "inSend" THEN {readerId} ELSE {})

\* How many responses for request n the stream holds.
Responses(n) == Cardinality({k \in 1..Len(out) : out[k].n = n})

C1_SlotAccounting ==
    Running =>
       /\ Cardinality(Held) <= PoolCap
       /\ htlcSema >= 0
       /\ htlcSema + Cardinality(Held) = PoolCap
       /\ (Cardinality(Held \cup Waiting) <= PoolCap =>
             \A i \in Waiting : slotAvailable(htlcSema))

C1_NoStartWhenFull ==
    \A i \in TaskIds :
       (tasks[i].pc = "acquire" /\ Cardinality(Held) = PoolCap)
          => tasks'[i].pc = "acquire"

\* C1: the goroutines holding a slot never outnumber the pool, free and
\* held slots add up to the capacity, a goroutine waiting for a slot finds one
\* when at most capacity goroutines are in flight, and while capacity
\* goroutines hold slots no other one starts its preflight.
C1_AdmissionPool == []C1_SlotAccounting /\ [][C1_NoStartWhenFull]_vars

C1_Witness == Running /\ Cardinality(Held) = PoolCap /\ Waiting # {}

\* C2: every dispatch goroutine that takes a slot eventually puts it back,
\* and puts it back once.
C2_SlotReleasedOnce ==
    /\ [](\A i \in TaskIds : tasks[i].released <= 1)
    /\ \A i \in TaskIds : (tasks[i].acquired = 1) ~> (tasks[i].released = 1)

\* C3: at most one writer is inside stream.Send at any time.
C3_SendsExclusive == Cardinality(InSend) <= 1

C3_Witness ==
    /\ \E i \in TaskIds : tasks[i].pc = "inSend"
    /\ reader.pc = "sendLock"

\* C4 as claimed: a dispatch goroutine that has finished made exactly one
\* write of a response.
C4_ExactlyOneResponse ==
    Running => \A i \in TaskIds : tasks[i].pc = "done" => tasks[i].sends = 1

\* C4 as amended: never two responses for one intent; a finished dispatch
\* goroutine has written exactly one, unless its write failed or its route
\* could not be marshalled, and then it has written none (and in the
\* marshalling case attempted none).
C4_AtMostOneResponse ==
    Running =>
       \A i \in TaskIds :
          /\ Responses(i) <= 1
          /\ tasks[i].sends <= 1
          /\ tasks[i].pc = "done" =>
                \/ tasks[i].from = "none" /\ tasks[i].sends = 1
                                          /\ Responses(i) = 1
                \/ tasks[i].from = "taskSend" /\ tasks[i].sends = 1
                                              /\ Responses(i) = 0
                \/ tasks[i].from = "marshall" /\ tasks[i].sends = 0
                                              /\ Responses(i) = 0

C4_Witness ==
    /\ \E i \in TaskIds : tasks[i].pc = "done" /\ Responses(i) = 1
    /\ \E i \in TaskIds : tasks[i].pc = "done" /\ tasks[i].from = "marshall"

C5_ValidationStep ==
    /\ (reader.pc = "recv" /\ reader'.pc = "sendLock") =>
          /\ extractPaymentIntent(reader'.req, selfNode).err = reader'.err
          /\ reader'.err # Nil
          /\ pc' = pc /\ errChan' = errChan /\ tasks' = tasks
    /\ (reader.pc = "inSend" /\ out' # out) =>
          /\ out' = Append(out, ErrorResponse(reader.n, reader.err,
                                              reader.intent))
          /\ reader'.pc = "select"
          /\ pc' = pc /\ errChan' = errChan

\* C5: a request that fails validation gets one error response, written by
\* the reader; neither the failure nor the write puts anything on errChan or
\* ends the call, and the reader is back at the top of its loop.
C5_ValidationErrorPerItem ==
    /\ [][C5_ValidationStep]_vars
    /\ [](Running => \A n \in TaskIds :
             /\ Responses(n) <= 1
             /\ (reader.n = n /\ reader.pc \in {"sendLock", "inSend"})
                   => Responses(n) = 0 /\ tasks[n].pc = "none")

C5_Witness ==
    /\ Running /\ pc = "loop" /\ reader.pc = "recv" /\ errChan = <<>>
    /\ \E k \in 1..Len(out) : out[k].PaymentError = ErrInvalidKeyLen

\* What C6 asks of one dispatch.
RoutedAfterPreflight(t) ==
    /\ Len(t.routed) <= 1
    /\ t.routed # <<>> =>
          /\ extractPaymentIntent(t.req, selfNode).err = Nil
          /\ extractPaymentIntent(t.req, selfNode).intent = t.intent
          /\ checkCanSendPayment(t.intent, openChannels, htlcFee).err = Nil
          /\ t.routed[1] = (IF t.intent.route THEN "SendToRoute"
                            ELSE "SendPayment")

\* C6: the routing engine is called at most once per request, only for a
\* request that resolved without error and whose preflight passed, and it is
\* SendToRoute exactly when the intent carries a route.
C6_RoutingAfterPreflight ==
    /\ \A i \in TaskIds : RoutedAfterPreflight(tasks[i])
    /\ RoutedAfterPreflight(sync)

C6_Witness ==
    \E i \in TaskIds : tasks[i].routed = <<"SendToRoute">> /\ tasks[i].pc = "done"

\* C7 as claimed: when the call returns after the reader has read
\* end-of-stream it returns nil, and after the reader has read an error it
\* returns that error.
C7_ReaderOutcomeReturned ==
    [][(Running /\ pc = "loop" /\ pc' = "returned") =>
          /\ reader.saw = "eof" => result' = Nil
          /\ reader.saw = "recvErr" => result' = reader.err]_vars

\* C7 as amended: the call returns the first value placed on errChan; that
\* is nil when the reader's end-of-stream signal came first and the read
\* error when the reader's read error came first.
C7_FirstSignalReturned ==
    (Running /\ pc = "returned") =>
       /\ firstPut # <<>> /\ cause = firstPut[1] /\ result = cause.err
       /\ cause.from = "eof" => result = Nil /\ reader.saw = "eof"
       /\ cause.from = "recv" =>
             /\ result = reader.err /\ result # Nil
             /\ reader.saw = "recvErr"

C7_Witness == Running /\ pc = "returned" /\ cause.from = "eof"

\* C8 as claimed: a call during which a stream write failed returns the
\* write error.
C8_WriteFailureReturned ==
    (Running /\ pc = "returned" /\ writeFailed) => result = ErrSend

\* C8 as amended: a failed write puts its error on errChan, and the call
\* returns the first value placed there: the write error when nothing was
\* placed before it, the earlier value otherwise.
C8_FirstWriteErrorReturned ==
    /\ \A i \in TaskIds :
          (tasks[i].pc = "done" /\ tasks[i].from = "taskSend") =>
             firstPut # <<>>
    /\ (Running /\ pc = "returned") =>
          /\ firstPut # <<>> /\ result = firstPut[1].err
          /\ firstPut[1].from \in {"taskSend", "readerSend"} =>
                result = ErrSend /\ writeFailed

C8_Witness ==
    Running /\ pc = "returned" /\ result = ErrSend /\ cause.from = "taskSend"

\* C9: once the shutdown signal has fired, a running streaming call returns.
C9_ShutdownReturns ==
    (rpc \in StreamCalls /\ started /\ quit) ~> (pc = "returned")

(***************************************************************************)
(* Properties of the shutdown signal.                                      *)
(***************************************************************************)
\* The call has returned and the shutdown signal is what ended it: the
\* handler took its r.quit branch, or (sendPayment) took from errChan the nil
\* the reader had put there for r.quit.
EndedByShutdown == pc = "returned" /\ cause.from = "quit"

\* C10 as claimed: a call that the shutdown signal ended returned no error.
C10_ShutdownIsNotAnError == EndedByShutdown => result = Nil

\* C10 as amended: a streaming payment call, OpenChannel, OpenChannelSync
\* and CloseChannel return nil when the shutdown signal ends them;
\* ChannelAcceptor returns the error "RPC server is shutting down".
C10_ShutdownResult ==
    EndedByShutdown =>
       /\ quit
       /\ rpc \in StreamCalls \cup OpenCalls \cup
                {"CloseChannel", "ChannelAcceptor"}
       /\ result = (IF rpc = "ChannelAcceptor" THEN ErrShuttingDown ELSE Nil)

C10_Witness ==
    /\ EndedByShutdown
    /\ rpc = "CloseChannel" /\ chanReq.Force /\ out = <<"pendingUpdate">>

(***************************************************************************)
(* Properties of the order of the responses.                               *)
(***************************************************************************)
\* The first two requests of the stream were both handed to the dispatcher:
\* request 1 (A) before request 2 (B), the reader taking them in turn.
BothDispatched ==
    Running /\ tasks[1].pc # "none" /\ tasks[2].pc # "none"

BothResponded == Running /\ Responses(1) = 1 /\ Responses(2) = 1

\* A write of a dispatch goroutine failed: the stream did not stay open.
TaskWriteFailed == \E i \in {1, 2} : tasks[i].from = "taskSend"

\* The route of a payment could not be marshalled.
MarshallFailed == \E i \in {1, 2} : tasks[i].from = "marshall"

\* C11 as claimed: when two payments were handed to the dispatcher and no
\* write fails, both responses are eventually written.
C11_BothResponsesWritten ==
    BothDispatched ~> (BothResponded \/ TaskWriteFailed)

\* C11 as amended: when two payments were handed to the dispatcher and no
\* write fails, both responses are eventually written, in either order,
\* unless the route of one of them cannot be marshalled; that payment gets
\* no response.
C11_BothResponsesUnlessMarshall ==
    BothDispatched ~> (BothResponded \/ TaskWriteFailed \/ MarshallFailed)

\* B's response stands before A's on the stream.
C11_Witness ==
    /\ BothDispatched /\ BothResponded
    /\ tasks[1].pc = "done" /\ tasks[2].pc = "done"
    /\ \E j, k \in 1..Len(out) : j < k /\ out[j].n = 2 /\ out[k].n = 1

(***************************************************************************)
(* Properties of the capacity preflight.                                   *)
(***************************************************************************)
\* A channel of the list is eligible (peer connected, link registered, link
\* eligible to forward) with at least amt atoms above its reserve, on the
\* local side and on the remote side.
SendCapable(chans, amt) ==
    \E k \in 1..Len(chans) :
       /\ chans[k].peerOnline /\ chans[k].hasLink /\ chans[k].eligible
       /\ ToAtoms(chans[k].LocalBalance) - chans[k].ChanReserve >= amt
ReceiveCapable(chans, amt) ==
    \E k \in 1..Len(chans) :
       /\ chans[k].peerOnline /\ chans[k].hasLink /\ chans[k].eligible
       /\ ToAtoms(chans[k].RemoteBalance) - chans[k].RemoteChanReserve >= amt

\* The dispatch t is past its preflight.
PastPreflight(t) == t.pc \notin {"none", "acquire", "preflight"}

\* What C12 asks of one dispatch.
PreflightPassedIfCapable(t) ==
    (PastPreflight(t) /\
     SendCapable(openChannels, ToAtoms(t.intent.mat) + htlcFee)) =>
       /\ checkCanSendPayment(t.intent, openChannels, htlcFee).err = Nil
       /\ t.routed # <<>>

\* C12: the preflight of a send passes, and the routing engine is called,
\* whenever some channel of the list is eligible with a capacity of at least
\* the payment amount plus the fee estimate; the preflight of an invoice
\* passes whenever some channel is eligible with an inbound capacity of at
\* least the invoice value; wherever the channel stands in the list.
C12_PreflightSucceeds ==
    /\ rpc \in PaymentCalls =>
          /\ PreflightPassedIfCapable(sync)
          /\ \A i \in TaskIds : PreflightPassedIfCapable(tasks[i])
    /\ (rpc = "AddInvoice" /\ pc # "start" /\
        ReceiveCapable(openChannels, invoice.Value)) =>
          /\ checkCanReceiveInvoice(invoice, openChannels).err = Nil
          /\ cause.from # "preflight"

\* The second channel of the list is the one with enough capacity, and
\* with exactly the amount needed; the first is live with too little.
C12_Witness ==
    /\ rpc = "SendPaymentSync" /\ sync.routed # <<>>
    /\ ~sync.intent.ignoreMaxOutboundAmt
    /\ Len(openChannels) = 2
    /\ ~SendCapable(<<openChannels[1]>>, ToAtoms(sync.intent.mat) + htlcFee)
    /\ openChannels[1].peerOnline /\ openChannels[1].hasLink
    /\ openChannels[1].eligible
    /\ ToAtoms(openChannels[2].LocalBalance) - openChannels[2].ChanReserve
          = ToAtoms(sync.intent.mat) + htlcFee

\* C13 as claimed: with no open channel the preflight fails with "no open
\* channels" whatever the request, its bypass flag included.
C13_EmptyListFails ==
    /\ (rpc = "SendPaymentSync" /\ PastPreflight(sync) /\
        openChannels = <<>>) =>
          sync.routed = <<>> /\ sync.err = ErrNoOpenChannels
    /\ (rpc = "AddInvoice" /\ pc # "start" /\ openChannels = <<>>) =>
          pc = "returned" /\ result = ErrNoOpenChannels

\* C13 as amended: with no open channel the preflight fails with "no open
\* channels" whatever the amount, unless the request set its bypass flag:
\* then the preflight passes without looking at the channels.
C13_EmptyListFailsUnlessBypassed ==
    /\ (rpc = "SendPaymentSync" /\ PastPreflight(sync) /\
        openChannels = <<>>) =>
          IF sync.req.IgnoreMaxOutboundAmt
          THEN sync.routed # <<>>
          ELSE sync.routed = <<>> /\ sync.err = ErrNoOpenChannels
    /\ (rpc = "AddInvoice" /\ pc # "start" /\ openChannels = <<>>) =>
          IF invoice.IgnoreMaxInboundAmt
          THEN cause.from # "preflight"
          ELSE pc = "returned" /\ result = ErrNoOpenChannels

C13_Witness ==
    /\ rpc = "AddInvoice" /\ openChannels = <<>> /\ invoice.Value = 0
    /\ pc = "returned" /\ result = ErrNoOpenChannels

(***************************************************************************)
(* Properties of extractPaymentIntent, on the request of a sendPaymentSync *)
(* call.                                                                   *)
(***************************************************************************)
\* What extractPaymentIntent makes of the call's request.
Resolved == extractPaymentIntent(sync.req, selfNode)

\* sendPaymentSync has resolved its request.
SyncResolved == rpc = "SendPaymentSync" /\ started /\ pc # "start"

InRouteMode   == sync.req.route
InInvoiceMode == ~sync.req.route /\ ~sync.req.PaymentRequest.empty
InManualMode  == ~sync.req.route /\ sync.req.PaymentRequest.empty

\* The call returned the error err of the resolution without dispatching.
RejectedWith(err) ==
    /\ pc = "returned" /\ cause.from = "validation" /\ result = err
    /\ sync.routed = <<>> /\ out = <<>>

\* The request reduced to its payment hash, its route and its bypass flag.
RouteFieldsOnly(req) ==
    [BlankReq(req.PaymentHash) EXCEPT
        !.PaymentHashString = req.PaymentHashString, !.route = req.route,
        !.IgnoreMaxOutboundAmt = req.IgnoreMaxOutboundAmt]

\* The request without its manual destination and hash, and without its
\* manual amount when the invoice has one.
WithoutManualFields(req) ==
    LET r == [req EXCEPT !.Dest = NoBytes, !.DestString = "",
                         !.PaymentHash = NoHash, !.PaymentHashString = ""]
    IN  IF req.PaymentRequest.hasMilliAt
        THEN [r EXCEPT !.Amt = 0, !.AmtMAtoms = 0]
        ELSE r

\* C14: with a route, the resolution is that of the payment hash and the
\* route alone: it fails only on a hash string that is not hex, and the
\* intent has the hash and the route and nothing else of the request (but
\* the bypass flag, which every intent carries).  Without a route and with
\* an invoice string, the manual destination and hash, and the manual
\* amount when the invoice has one, change nothing, and destination, hash and
\* that amount are the invoice's.  sendPaymentSync acts on this resolution.
C14_ModePrecedence ==
    rpc = "SendPaymentSync" =>
       /\ InRouteMode =>
             /\ Resolved = extractPaymentIntent(RouteFieldsOnly(sync.req),
                                                selfNode)
             /\ Resolved.err # Nil => sync.req.PaymentHashString = "zz"
             /\ Resolved.err = Nil =>
                   Resolved.intent =
                      [ZeroIntent(sync.req.IgnoreMaxOutboundAmt) EXCEPT
                          !.route = TRUE,
                          !.rHash = IF sync.req.PaymentHashString = "02"
                                    THEN 2 ELSE sync.req.PaymentHash]
       /\ InInvoiceMode =>
             /\ Resolved = extractPaymentIntent(
                               WithoutManualFields(sync.req), selfNode)
             /\ Resolved.err = Nil =>
                   /\ Resolved.intent.dest = sync.req.PaymentRequest.dest
                   /\ Resolved.intent.rHash = sync.req.PaymentRequest.hash
                   /\ ~Resolved.intent.route
                   /\ sync.req.PaymentRequest.hasMilliAt =>
                         Resolved.intent.mat =
                            sync.req.PaymentRequest.MilliAt
       /\ SyncResolved =>
             IF Resolved.err # Nil THEN RejectedWith(Resolved.err)
             ELSE sync.intent = Resolved.intent

\* A request with a route whose every other field would fail the
\* resolution went to the routing engine with its route.
C14_Witness ==
    /\ SyncResolved /\ InRouteMode /\ sync.routed = <<"SendToRoute">>
    /\ ~sync.req.PaymentRequest.empty /\ ~sync.req.PaymentRequest.wellFormed
    /\ sync.req.Dest = Key("self") /\ ~sync.req.AllowSelfPayment
    /\ sync.req.Amt # 0 /\ sync.req.AmtMAtoms # 0
    /\ sync.req.LastHopPubkey.len = 32

\* C15: a request in manual mode resolves to an error or to an intent of
\* at most MaxPaymentMAtoms; one that asks for more resolves to an error,
\* and sendPaymentSync returns it without dispatching.
C15_ManualAmountBounded ==
    (rpc = "SendPaymentSync" /\ InManualMode) =>
       /\ Resolved.err = Nil => Resolved.intent.mat <= MaxPaymentMAtoms
       /\ (sync.req.Amt * 1000 > MaxPaymentMAtoms \/
           sync.req.AmtMAtoms > MaxPaymentMAtoms) =>
             /\ Resolved.err # Nil
             /\ SyncResolved => RejectedWith(Resolved.err)

C15_Witness ==
    /\ SyncResolved /\ InManualMode /\ RejectedWith(ErrTooLarge)
    /\ sync.req.Amt = 4 /\ sync.req.AmtMAtoms = 0

\* The amount of a request is zero.
ZeroAmount(req) == req.Amt = 0 /\ req.AmtMAtoms = 0

\* C16: a request in manual mode with amount 0 is rejected with a
\* validation error and is not passed to the routing engine, by the
\* synchronous call and by the streaming call.
C16_ZeroAmountRejected ==
    /\ (SyncResolved /\ InManualMode /\ ZeroAmount(sync.req)) =>
          /\ Resolved.err # Nil
          /\ RejectedWith(Resolved.err)
    /\ \A i \in TaskIds :
          (Running /\ tasks[i].pc # "none" /\ ~tasks[i].req.route /\
           tasks[i].req.PaymentRequest.empty) => ~ZeroAmount(tasks[i].req)

\* C17: without a route, a request whose destination resolved to this node
\* is rejected with "self-payments not allowed" when AllowSelfPayment
\* is not set; with the flag set, and with a route, no request is rejected
\* with that error.
C17_SelfPayment ==
    rpc = "SendPaymentSync" =>
       /\ (~InRouteMode /\ ~sync.req.AllowSelfPayment /\
           Resolved.intent.dest = selfNode) =>
             /\ Resolved.err = ErrSelfPayment
             /\ SyncResolved => RejectedWith(ErrSelfPayment)
       /\ (InRouteMode \/ sync.req.AllowSelfPayment) =>
             /\ Resolved.err # ErrSelfPayment
             /\ result # ErrSelfPayment

\* An invoice of this node was refused.
C17_Witness ==
    /\ SyncResolved /\ InInvoiceMode /\ RejectedWith(ErrSelfPayment)
    /\ sync.req.PaymentRequest.dest = selfNode
    /\ sync.req.Dest = Key("A")

(***************************************************************************)
(* Properties of the relay loops of OpenChannel and CloseChannel.          *)
(***************************************************************************)
RelayCalls == {"OpenChannel", "CloseChannel"}

\* The positions of out that hold a terminal event: channel open or
\* channel close.
Terminals ==
    {k \in 1..Len(out) :
        out[k] \in {"ChanOpen", "ChanOpenNoTxid", "channelCloseUpdate"}}

\* C18: in a force close, every closed event on the stream has a pending
\* event before it.
C18_PendingBeforeClosed ==
    (rpc = "CloseChannel" /\ chanReq.Force) =>
       \A k \in 1..Len(out) :
          out[k] = "channelCloseUpdate" =>
             \E j \in 1..(k - 1) : out[j] = "pendingUpdate"

\* The waiter's closed update was on the feed before the loop took the
\* pending one, and both were written.
C18_Witness ==
    /\ rpc = "CloseChannel" /\ chanReq.Force /\ pc = "returned"
    /\ out = <<"pendingUpdate", "channelCloseUpdate">>
    /\ result = Nil /\ ~quit

\* What C19 says of the order of the writes and of the number of terminal
\* events: the stream holds the updates taken, in the order taken (all of
\* them while the loop runs, all but the last after a failed write or
\* conversion of the last); at most one terminal event, nothing after it;
\* exactly one when the call returned nil without the shutdown signal.
RelayInOrder ==
    /\ Len(out) <= Len(taken)
    /\ \A k \in 1..Len(out) : out[k] = taken[k]
    /\ pc = "loop" => out = taken
    /\ (pc = "returned" /\ out # taken) =>
          /\ Len(taken) = Len(out) + 1
          /\ cause.from \in {"send", "convert"} /\ result # Nil
    /\ Cardinality(Terminals) <= 1
    /\ \A k \in Terminals : k = Len(out) /\ pc = "returned"
    /\ (pc = "returned" /\ result = Nil /\ cause.from # "quit") =>
          Cardinality(Terminals) = 1

\* C19 as claimed: the updates are written in the order taken, and the
\* call returns nil right after writing a terminal event.
C19_TerminalEndsWithSuccess ==
    rpc \in RelayCalls =>
       /\ RelayInOrder
       /\ Terminals # {} => result = Nil

\* C19 as amended: the updates are written in the order taken, and the
\* call returns right after writing a terminal event: nil, but in
\* OpenChannel the error of GetChanPointFundingTxid when the channel point
\* of the event does not parse.
C19_TerminalEndsCall ==
    rpc \in RelayCalls =>
       /\ RelayInOrder
       /\ Terminals # {} =>
             IF out[Len(out)] = "ChanOpenNoTxid"
             THEN rpc = "OpenChannel" /\ result = ErrTxid
             ELSE result = Nil /\ cause.from = "terminal"

C19_Witness ==
    /\ rpc = "OpenChannel" /\ pc = "returned" /\ result = Nil
    /\ out = <<"ChanPending", "ChanOpen">> /\ taken = out

\* The step by which a relay loop takes its shutdown branch.
RelayQuitStep ==
    /\ rpc \in RelayCalls
    /\ pc = "loop" /\ pc' = "returned" /\ cause'.from = "quit"

\* C20: a relay loop that takes the shutdown branch returns nil and writes
\* nothing, and nothing is written after the call has returned.
C20_ShutdownWritesNothing ==
    [][/\ RelayQuitStep => (result' = Nil /\ out' = out)
       /\ (rpc \in RelayCalls /\ pc = "returned") => out' = out]_vars

\* The loop took the shutdown branch while the terminal event was waiting
\* on the feed.
C20_Witness ==
    /\ rpc = "OpenChannel" /\ EndedByShutdown
    /\ updateChan = <<"ChanOpen">> /\ out = <<"ChanPending">>

(***************************************************************************)
(* Properties of the error feed of the relay loops.                        *)
(***************************************************************************)
AllRelayCalls == {"OpenChannel", "OpenChannelSync", "CloseChannel"}

\* The step by which a relay loop takes an error from the error feed.
RelayErrStep ==
    /\ rpc \in AllRelayCalls
    /\ pc = "loop" /\ Len(errChan) > 0 /\ errChan' = Tail(errChan)

\* What C21 says of one step of a relay call.
ErrorEndsRelayStep ==
    /\ RelayErrStep =>
          /\ pc' = "returned" /\ result' = Head(errChan).err
          /\ out' = out /\ engine'.calls = engine.calls
    /\ pc = "returned" => (out' = out /\ engine'.calls = engine.calls)
    /\ Len(engine'.calls) <= 1

\* C21: a relay loop that takes an error from the error feed returns that
\* error in the same step, writes nothing and does not invoke the engine
\* in it; after the return nothing is written and the engine is not invoked;
\* the engine operation is invoked at most once per call.
C21_ErrorEndsRelay ==
    [][(rpc \in AllRelayCalls) => ErrorEndsRelayStep]_vars

\* OpenChannel wrote the pending update, then the engine's error ended it.
C21_Witness ==
    /\ rpc = "OpenChannel" /\ pc = "returned" /\ result = ErrEngine
    /\ cause.from = "engine" /\ out = <<"ChanPending">>
    /\ engine.calls = <<"OpenChannel">>

(***************************************************************************)
(* Properties of OpenChannelSync.                                          *)
(***************************************************************************)
\* The call went past its validation and then returned.
SyncRelayReturned ==
    /\ rpc = "OpenChannelSync" /\ pc = "returned"
    /\ cause.from \notin {"notActive", "validation"}

\* C22: OpenChannelSync takes at most one item from the engine's feeds and
\* returns on it: the channel point and no error on the first update, the
\* error on an error of the error feed, no result and no error on the
\* shutdown signal.
C22_SyncTakesOneItem ==
    rpc = "OpenChannelSync" =>
       /\ Len(taken) <= 1
       /\ pc = "loop" => (taken = <<>> /\ out = <<>>)
       /\ SyncRelayReturned =>
             \/ /\ Len(taken) = 1
                /\ result = Nil /\ out = <<"ChannelPoint">>
             \/ /\ cause.from = "engine" /\ taken = <<>>
                /\ result = ErrEngine /\ out = <<>>
             \/ /\ cause.from = "quit" /\ taken = <<>>
                /\ result = Nil /\ out = <<>>

(***************************************************************************)
(* Properties of the validation of an open-channel request.                *)
(***************************************************************************)
\* The checks the handlers make before they compare the push amount with
\* the funding amount: Started() in both (rpcserver.go:1437, 1603), the
\* wallet's synchronisation and the node key in OpenChannelSync (1609-1627).
BeforePushCheck ==
    IF ~started THEN ErrServerNotActive
    ELSE IF rpc = "OpenChannel" THEN Nil
    ELSE IF chanReq.isSynced = "err" THEN ErrWalletSync
    ELSE IF chanReq.isSynced = "no" THEN ErrNotSynced
    ELSE IF chanReq.NodePubkey = "badhex" THEN ErrHex
    ELSE IF chanReq.NodePubkey \in {"bad", "none"} THEN ErrParseKey
    ELSE Nil

\* C23: an open-channel request whose push amount is at least its funding
\* amount never reaches the engine and nothing is written for it; the call
\* returns an error: that of the push check unless an earlier check failed.
C23_PushRejected ==
    (rpc \in OpenCalls /\ chanReq.PushAtoms >= chanReq.LocalFundingAmount) =>
       /\ engine.calls = <<>> /\ out = <<>> /\ updateChan = <<>>
       /\ pc \in {"start", "returned"}
       /\ pc = "returned" =>
             /\ result \notin {Nil, "none", "panic"}
             /\ result = IF BeforePushCheck # Nil THEN BeforePushCheck
                         ELSE ErrPushTooLarge

\* OpenChannelSync rejected a push of the whole funding amount.
C23_Witness ==
    /\ rpc = "OpenChannelSync" /\ pc = "returned"
    /\ chanReq.PushAtoms = chanReq.LocalFundingAmount
    /\ chanReq.LocalFundingAmount >= minChanFundingSize
    /\ result = ErrPushTooLarge /\ engine.calls = <<>> /\ out = <<>>

(***************************************************************************)
(* Properties of the ChannelAcceptor call and its decide calls.            *)
(***************************************************************************)
\* The decide calls that were made.
Made == {d \in DecideIds : decide[d].pc # "idle"}

\* C24: a decide call that ends on its timer returns reject, whether the
\* timer fired while it offered its request or while it waited for the
\* reply; a call that got no reply in its slot never accepts; and every
\* call has one timer for both waits.
C24_TimeoutRejects ==
    \A d \in Made :
       /\ decide[d].timers = 1
       /\ decide[d].why = "timeout" => (decide[d].pc = "done" /\ ~decide[d].ret)
       /\ (decide[d].pc = "done" /\ decide[d].why # "resp") => ~decide[d].ret

\* The first call timed out after its request was written to the client
\* and before any reply was put in its slot, the second while it was still
\* offering its request.
C24_Witness ==
    /\ rpc = "ChannelAcceptor" /\ pc = "loop"
    /\ \A d \in {1, 2} :
          /\ decide[d].pc = "done" /\ decide[d].why = "timeout"
          /\ decide[d].respChan = <<>>
    /\ out = <<decide[1].id>>
    /\ DOMAIN acceptRequests = {decide[1].id}

\* The decide calls that are waiting, in either select.
InFlight == {d \in DecideIds : decide[d].pc \in {"offer", "wait"}}

\* What C25 says of one step after the ChannelAcceptor call has returned: a
\* decide call that returns accept had the reply in its slot, and no slot
\* is filled any more.
AfterTeardownStep ==
    (rpc = "ChannelAcceptor" /\ pc = "returned") =>
       \A d \in InFlight :
          /\ (decide'[d].pc = "done" /\ decide'[d].ret) =>
                decide[d].respChan = <<TRUE>>
          /\ Len(decide'[d].respChan) <= Len(decide[d].respChan)

\* C25: once the ChannelAcceptor call has returned, no decide call stays in
\* flight for ever: each returns, without the help of its timer, and
\* returns reject unless its slot already held a reply.
C25_TeardownUnblocks ==
    /\ [][AfterTeardownStep]_vars
    /\ []<>(~(rpc = "ChannelAcceptor" /\ pc = "returned") \/ InFlight = {})

\* The client disconnected while the first call waited for its reply and
\* the second still offered its request; both returned reject on quit.
C25_Witness ==
    /\ rpc = "ChannelAcceptor" /\ pc = "returned" /\ ~quit
    /\ cause.from = "recv"
    /\ \A d \in {1, 2} :
          /\ decide[d].pc = "done" /\ decide[d].why = "quit"
          /\ ~decide[d].ret
    /\ out = <<decide[1].id>>

\* The step by which the loop takes a reply from the reader.
ReplyTaken ==
    /\ rpc = "ChannelAcceptor"
    /\ acceptReader.pc = "put" /\ acceptReader'.pc = "recv"

\* What C26 says of that step.
ReplyRouted ==
    LET resp == acceptReader.resp
    IN  /\ pc = "loop" /\ pc' = "loop" /\ out' = out
        /\ IF resp.id \notin DOMAIN acceptRequests
           THEN decide' = decide /\ acceptRequests' = acceptRequests
           ELSE LET k == acceptRequests[resp.id]
                IN  /\ decide'[k].respChan =
                          Append(decide[k].respChan, resp.accept)
                    /\ Len(decide'[k].respChan) = 1
                    /\ \A e \in DecideIds \ {k} : decide'[e] = decide[e]
                    /\ DOMAIN acceptRequests' =
                          DOMAIN acceptRequests \ {resp.id}
                    /\ \A x \in DOMAIN acceptRequests' :
                          acceptRequests'[x] = acceptRequests[x]

\* C26: a reply whose pending-channel id has no entry in the map changes
\* neither a slot nor the map and the loop goes on; a reply whose id has an
\* entry puts its accept value in that entry's slot and removes the entry.
C26_ReplyByMap == [][ReplyTaken => ReplyRouted]_vars

\* The reply for the first call filled its slot and its entry is gone,
\* while the second call's entry is still there.
C26_Witness ==
    /\ rpc = "ChannelAcceptor" /\ pc = "loop"
    /\ decide[1].pc = "wait" /\ decide[1].respChan = <<TRUE>>
    /\ decide[2].pc = "wait" /\ decide[2].respChan = <<>>
    /\ DOMAIN acceptRequests = {decide[2].id}
    /\ decide[2].id # decide[1].id

\* C27: a decide call accepts only on a reply of the client that carried
\* its own pending-channel id with Accept = true; whatever is put in its
\* slot comes from a reply carrying its id, and the value it returns from
\* the slot is that reply's.
C27_AcceptNeedsOwnReply ==
    \A d \in Made :
       /\ \A k \in 1..Len(decide[d].replies) :
             decide[d].replies[k].id = decide[d].id
       /\ Len(decide[d].replies) <= 1
       /\ decide[d].respChan # <<>> =>
             /\ Len(decide[d].replies) = 1
             /\ decide[d].respChan = <<decide[d].replies[1].accept>>
       /\ decide[d].why = "resp" =>
             /\ Len(decide[d].replies) = 1
             /\ decide[d].ret = decide[d].replies[1].accept
       /\ decide[d].ret =>
             /\ decide[d].pc = "done" /\ decide[d].why = "resp"
             /\ decide[d].replies = <<[id |-> decide[d].id, accept |-> TRUE]>>

\* Two calls with different ids were registered; the second accepted on its
\* reply, the first rejected on its own.
C27_Witness ==
    /\ rpc = "ChannelAcceptor"
    /\ decide[1].id # decide[2].id
    /\ decide[2].pc = "done" /\ decide[2].why = "resp" /\ decide[2].ret
    /\ decide[1].pc = "done" /\ decide[1].why = "resp" /\ ~decide[1].ret

(***************************************************************************)
(* Properties of the dispatch goroutines of a streaming payment call.      *)
(***************************************************************************)
\* The dispatch goroutines that were started and have not finished.
Unfinished == {i \in TaskIds : tasks[i].pc \notin {"none", "done"}}

\* C28: the dispatch goroutines started and not yet finished never
\* outnumber the pool, the reader's hand-off waiting while all slots are
\* held.
C28_ReaderBackpressure == Running => Cardinality(Unfinished) <= PoolCap

\* C29: once a streaming payment call has returned, every dispatch
\* goroutine still in flight finishes: none stays blocked reporting a
\* failed write.
C29_TasksFinishAfterReturn ==
    (Running /\ pc = "returned") ~> (Unfinished = {})

(***************************************************************************)
(* Properties of the diagnostics of the capacity preflight.                *)
(***************************************************************************)
\* The channels of the list that are eligible: peer connected, link
\* registered and eligible to forward.
EligibleChans(chans) ==
    {k \in 1..Len(chans) :
        chans[k].peerOnline /\ chans[k].hasLink /\ chans[k].eligible}

\* The largest number of a non-empty finite set of integers.
Largest(S) == CHOOSE c \in S : \A e \in S : e <= c

\* What C30 asks of the outcome chk of a preflight for amt on a non-empty
\* list without a sufficient channel, cap(k) being the usable capacity of
\* channel k and short the error of a shortfall.
DiagnosticAsClaimed(chans, amt, cap(_), chk, short) ==
    LET elig == EligibleChans(chans)
    IN  IF elig = {} THEN chk.err = ErrNoOnline
        ELSE LET best == Largest({cap(k) : k \in elig})
             IN  /\ chk.err = short
                 /\ chk.missingCap = amt - best
                 /\ \E k \in elig :
                       cap(k) = best /\ chans[k].chanID = chk.chanID

\* C30: on a non-empty list without a sufficient channel the preflight
\* fails with "no online channels found" exactly when no channel is
\* eligible, and otherwise with the shortfall against the largest capacity
\* among the eligible channels and the id of a channel that has it; for a
\* payment and for an invoice.
C30_ShortfallDiagnostic ==
    /\ (rpc = "SendPaymentSync" /\ PastPreflight(sync) /\
        ~sync.intent.ignoreMaxOutboundAmt /\ openChannels # <<>> /\
        ~SendCapable(openChannels, ToAtoms(sync.intent.mat) + htlcFee)) =>
          LET chk == checkCanSendPayment(sync.intent, openChannels, htlcFee)
              cap(k) == ToAtoms(openChannels[k].LocalBalance)
                           - openChannels[k].ChanReserve
          IN  /\ sync.err = chk.err
              /\ DiagnosticAsClaimed(openChannels,
                                     ToAtoms(sync.intent.mat) + htlcFee,
                                     cap, chk, ErrNotEnough)
    /\ (rpc = "AddInvoice" /\ pc # "start" /\
        ~invoice.IgnoreMaxInboundAmt /\ openChannels # <<>> /\
        ~ReceiveCapable(openChannels, invoice.Value)) =>
          LET chk == checkCanReceiveInvoice(invoice, openChannels)
              cap(k) == ToAtoms(openChannels[k].RemoteBalance)
                           - openChannels[k].RemoteChanReserve
          IN  /\ result = chk.err
              /\ DiagnosticAsClaimed(openChannels, invoice.Value, cap, chk,
                                     ErrNotEnoughInbound)

\* ---------------------------------------------------------------------------
\* size of a resolved payment, all three modes
\* ---------------------------------------------------------------------------

\* The invoice of the request, or the amount the caller adds to an invoice
\* without one, is above the maximum payment size.
InvoiceAboveMax ==
    /\ InInvoiceMode /\ sync.req.PaymentRequest.wellFormed
    /\ IF sync.req.PaymentRequest.hasMilliAt
       THEN sync.req.PaymentRequest.MilliAt > MaxPaymentMAtoms
       ELSE \/ sync.req.Amt * 1000 > MaxPaymentMAtoms
            \/ sync.req.AmtMAtoms > MaxPaymentMAtoms

\* C31: every intent that extractPaymentIntent returns without an error, in
\* route, invoice or manual mode, has an amount of at most MaxPaymentMAtoms;
\* an invoice-mode request whose invoice amount or caller-supplied amount is
\* above the maximum is rejected with the error of the resolution.
C31_AmountBounded ==
    SyncResolved =>
       /\ Resolved.err = Nil => Resolved.intent.mat <= MaxPaymentMAtoms
       /\ InvoiceAboveMax =>
             /\ Resolved.err # Nil
             /\ RejectedWith(Resolved.err)

\* The reply the loop takes from the reader came in late.
LateReplyTaken == ReplyTaken /\ acceptReader.late

\* No decide call that has not returned is changed by the step.
LiveCallsUntouched ==
    \A d \in DecideIds : decide[d].pc # "done" => decide'[d] = decide[d]

\* C32: a reply of the client that comes in after the decide call it
\* answers has timed out does not affect a later decide call that uses the
\* same pending-channel id, in any interleaving: taking it from the reader
\* changes no call that has not returned.
C32_LateReplyDropped == [][LateReplyTaken => LiveCallsUntouched]_vars

\* C33: while the ChannelAcceptor call runs and the server is not shutting
\* down, the map holds an entry for an
\* id only while a decide call for that id is outstanding: every entry is
\* the slot of a call whose request the loop has taken and that waits for
\* its reply, and no entry is left for a call that has returned, on a reply
\* or on its timer.
C33_EntryOnlyWhileOutstanding ==
    (rpc = "ChannelAcceptor" /\ pc = "loop" /\ ~quit) =>
       \A k \in DOMAIN acceptRequests :
          /\ decide[acceptRequests[k]].id = k
          /\ decide[acceptRequests[k]].pc = "wait"

\* A step of the negotiator loop: it takes a request from a decide call or
\* a reply from the reader.
LoopTakes ==
    /\ rpc = "ChannelAcceptor" /\ pc = "loop"
    /\ \/ ReplyTaken
       \/ \E d \in DecideIds : decide[d].pc = "offer" /\ decide'[d].pc = "wait"

\* Every slot has received at most one value and the loop is not blocked
\* on a slot.
SlotsFilledOnce ==
    /\ pc # "blocked"
    /\ \A d \in DecideIds :
          /\ Len(decide[d].replies) <= 1
          /\ Len(decide[d].respChan) <= 1

\* C34: the correlation map changes only in steps of the negotiator loop,
\* decide calls and the reader reach it by handing the loop a request or a
\* reply; and each response slot receives at most one value, so filling a
\* slot never blocks the loop.
C34_MapOwnedByLoop ==
    /\ [][(acceptRequests' # acceptRequests) => LoopTakes]_vars
    /\ [](rpc = "ChannelAcceptor" => SlotsFilledOnce)

\* The first call returned on its timer and the late reply was put in its
\* slot, which nobody reads; the second call returned on its own reply; the
\* loop goes on and the map is empty.
C34_Witness ==
    /\ rpc = "ChannelAcceptor" /\ pc = "loop"
    /\ decide[1].pc = "done" /\ decide[1].why = "timeout"
    /\ Len(decide[1].respChan) = 1 /\ Len(decide[1].replies) = 1
    /\ decide[2].pc = "done" /\ decide[2].why = "resp"
    /\ decide[2].id # decide[1].id
    /\ acceptRequests = emptyMap

(***************************************************************************)
(* The responses of the payment calls.                                     *)
(***************************************************************************)
\* The response for request n given what became of the dispatch t of its
\* intent: the preflight error, else the router's error, else the route.
Outcome(n, t) ==
    LET chk == checkCanSendPayment(t.intent, openChannels, htlcFee)
    IN  IF chk.err # Nil THEN ErrorResponse(n, chk.err, t.intent)
        ELSE IF t.err # Nil THEN ErrorResponse(n, t.err, t.intent)
        ELSE SuccessResponse(n, t.intent)

\* The responses a streaming call has written for dispatched intents.
Dispatched == {k \in 1..Len(out) : tasks[out[k].n].pc # "none"}

\* C35: for a request that resolves to a valid intent, sendPaymentSync
\* returns the outcome a streaming call writes for the same preflight and
\* routing behaviour: without a call-level error, a response with the
\* payment error and the hash when the preflight or the routing fails, and
\* a response with the hash and the route on success; a route that cannot
\* be marshalled is a call-level error in both.
C35_SyncAsStream ==
    /\ (SyncResolved /\ pc = "returned" /\ cause.from # "validation") =>
          \/ result = Nil /\ out = <<Outcome(1, sync)>>
          \/ /\ result = ErrMarshall /\ out = <<>>
             /\ Outcome(1, sync) = SuccessResponse(1, sync.intent)
    /\ rpc \in StreamCalls =>
          \A k \in Dispatched :
             /\ out[k] = Outcome(out[k].n, tasks[out[k].n])
             /\ tasks[out[k].n].from = "none"

\* The synchronous call returned the router's error in its response.
C35_Witness ==
    /\ SyncResolved /\ pc = "returned" /\ result = Nil
    /\ sync.routed # <<>>
    /\ out = <<ErrorResponse(1, ErrRouter, sync.intent)>>
    /\ out[1].PaymentHash = sync.req.PaymentHash

\* C36: every response a SendPayment stream writes for a payment, on a
\* validation error, on a preflight or routing error and on success,
\* carries the payment hash of the request it answers (the n-th request of
\* the stream carries the hash n).
C36_ResponseCarriesHash ==
    rpc = "SendPayment" =>
       \A k \in 1..Len(out) : out[k].PaymentHash = out[k].n

\* C37: once a streaming payment call has returned, its reader terminates
\* as soon as its pending stream read has returned: it does not stay
\* blocked reporting io.EOF, a read error or the shutdown signal.
C37_ReaderTerminates ==
    (Running /\ pc = "returned") ~> (reader.pc \in {"done", "recv"})

\* C38: whatever the first update the engine delivers, a pending update or
\* an open update, OpenChannelSync returns normally on it, with a result
\* or with an error: the handler does not panic.
C38_SyncFirstUpdateReturns ==
    (rpc = "OpenChannelSync" /\ taken # <<>>) =>
       /\ pc = "returned" /\ cause.from # "panic"
       /\ result # "panic"
       /\ result = Nil => out # <<>>

\* C39: neither OpenChannel nor OpenChannelSync calls the engine with a
\* local funding amount above MaxFundingAmount: both reject such a request
\* before the engine call.
C39_FundingAmountBounded ==
    (rpc \in OpenCalls /\ chanReq.LocalFundingAmount > MaxFundingAmount) =>
       /\ engine.calls = <<>>
       /\ pc = "returned" => result \notin {Nil, "none"}

(***************************************************************************)
(* The synthesized feed of a force close.                                  *)
(***************************************************************************)
\* A force close whose confirmation task has not delivered yet.
ForceCloseWaiting ==
    rpc = "CloseChannel" /\ chanReq.Force /\ engine.waiter = "waiting"

\* C40: in a force close the pending update is on the feed when the relay
\* loop starts and the feed always has room for the close update: as long
\* as the confirmation task has not delivered, its send of the close update
\* can proceed, whether the loop still runs or has returned; after it the
\* feed holds at most the two updates.
C40_ForceCloseFeedNeverBlocks ==
    /\ ForceCloseWaiting =>
          /\ ENABLED WaiterClosed
          /\ \A k \in 1..Len(updateChan) : updateChan[k] = "pendingUpdate"
          /\ Len(updateChan) + Len(taken) = 1
    /\ (rpc = "CloseChannel" /\ chanReq.Force) =>
          Len(updateChan) + Len(taken) <= 2

\* The loop returned on the shutdown signal before it took anything; the
\* confirmation task has delivered the close update behind the pending one
\* and finished.
C40_Witness ==
    /\ rpc = "CloseChannel" /\ chanReq.Force
    /\ pc = "returned" /\ cause.from = "quit" /\ taken = <<>>
    /\ engine.waiter = "done"
    /\ updateChan = <<"pendingUpdate", "channelCloseUpdate">>

====
